---------------------------- MODULE Spec2Model ----------------------------
(***************************************************************************)
(* Model of chuk-mcp-open-meteo: the six tools of server.py and the        *)
(* response schema of models.py.                                           *)
(*                                                                         *)
(* A tool invocation is a small state machine: the query parameters are    *)
(* assembled, an httpx.AsyncClient is opened, one GET is issued, the       *)
(* transport delivers an outcome, the status is checked, the body is       *)
(* parsed, the client is closed and the parsed body is decoded against the *)
(* pydantic model of the tool.                                             *)
(***************************************************************************)
EXTENDS Integers, Sequences, FiniteSets, TLC

(***************************************************************************)
(* Values.  A Python/JSON value is a record of one field: the field's name *)
(* is the kind of the value and the field holds the payload.  A float is   *)
(* carried as a number of halves, so that 3 halves is 1.5 and the int 1    *)
(* converts to the float of 2 halves.                                      *)
(***************************************************************************)
None == [null |-> 0]
PyBool(b) == [bool |-> b]
PyInt(n) == [int |-> n]
PyFloat(h) == [float |-> h]
PyStr(s) == [str |-> s]
PyList(s) == [arr |-> s]
PyDict(f) == [obj |-> f]
Instance(name, fields, extra) ==
    [model |-> [name |-> name, fields |-> fields, extra |-> extra]]

\* The kind of a value and its payload.
Kind(x) == CHOOSE n \in DOMAIN x : TRUE
Val(x) == x[Kind(x)]

IsNull(x) == Kind(x) = "null"
Has(o, key) == Kind(o) = "obj" /\ key \in DOMAIN Val(o)
Without(o, key) == PyDict([x \in (DOMAIN Val(o)) \ {key} |-> Val(o)[x]])
With(o, key, val) == PyDict((key :> val) @@ Val(o))
EmptyMap == [x \in {} |-> None]

(***************************************************************************)
(* The schema of models.py.  Req(t) is a field declared `t = Field(...)`,  *)
(* Opt(t) a field declared `Optional[t] = Field(None)`.  A list field      *)
(* names its element type; elemopt says the elements are Optional.         *)
(***************************************************************************)
Req(kind) == [req |-> TRUE, kind |-> kind, elem |-> "", elemopt |-> FALSE]
Opt(kind) == [req |-> FALSE, kind |-> kind, elem |-> "", elemopt |-> FALSE]
ReqList(elem) == [req |-> TRUE, kind |-> "list", elem |-> elem, elemopt |-> FALSE]
OptList(elem) == [req |-> FALSE, kind |-> "list", elem |-> elem, elemopt |-> FALSE]
OptListOpt(elem) == [req |-> FALSE, kind |-> "list", elem |-> elem, elemopt |-> TRUE]

\* Mutant: the time of the current conditions is declared Optional.
CurrentWeather_optional_time ==
    [temperature |-> Req("float"), windspeed |-> Req("float"),
     winddirection |-> Req("float"), weathercode |-> Req("int"),
     time |-> Opt("str")]

CurrentWeather ==
    [temperature |-> Req("float"), windspeed |-> Req("float"),
     winddirection |-> Req("float"), weathercode |-> Req("int"),
     time |-> Req("str")]

HourlyWeather ==
    [time |-> ReqList("str"),
     temperature_2m |-> OptList("float"), relative_humidity_2m |-> OptList("float"),
     precipitation |-> OptList("float"), rain |-> OptList("float"),
     showers |-> OptList("float"), snowfall |-> OptList("float"),
     cloud_cover |-> OptList("float"), wind_speed_10m |-> OptList("float"),
     wind_direction_10m |-> OptList("float"), pressure_msl |-> OptList("float")]

\* Mutant: the daily readings are declared as lists of Optional entries.
DailyWeather_nullable ==
    [time |-> ReqList("str"),
     temperature_2m_max |-> OptListOpt("float"), temperature_2m_min |-> OptListOpt("float"),
     precipitation_sum |-> OptListOpt("float"), precipitation_hours |-> OptListOpt("float"),
     rain_sum |-> OptListOpt("float"), sunrise |-> OptListOpt("str"),
     sunset |-> OptListOpt("str"), wind_speed_10m_max |-> OptListOpt("float")]

DailyWeather ==
    [time |-> ReqList("str"),
     temperature_2m_max |-> OptList("float"), temperature_2m_min |-> OptList("float"),
     precipitation_sum |-> OptList("float"), precipitation_hours |-> OptList("float"),
     rain_sum |-> OptList("float"), sunrise |-> OptList("str"),
     sunset |-> OptList("str"), wind_speed_10m_max |-> OptList("float")]

WeatherForecast ==
    [latitude |-> Req("float"), longitude |-> Req("float"),
     elevation |-> Opt("float"), timezone |-> Opt("str"),
     timezone_abbreviation |-> Opt("str"),
     current_weather |-> Opt("CurrentWeather"),
     hourly |-> Opt("HourlyWeather"), daily |-> Opt("DailyWeather")]

GeocodingResult ==
    [id |-> Opt("int"), name |-> Req("str"),
     latitude |-> Req("float"), longitude |-> Req("float"),
     elevation |-> Opt("float"), feature_code |-> Opt("str"),
     country_code |-> Opt("str"), country |-> Opt("str"),
     country_id |-> Opt("int"), timezone |-> Opt("str"),
     population |-> Opt("int"), postcodes |-> OptList("str"),
     admin1 |-> Opt("str"), admin2 |-> Opt("str"),
     admin3 |-> Opt("str"), admin4 |-> Opt("str")]

\* Mutant: results is declared without a default.
GeocodingResponse_required_results ==
    [results |-> ReqList("GeocodingResult"), generationtime_ms |-> Opt("float")]

GeocodingResponse ==
    [results |-> OptList("GeocodingResult"), generationtime_ms |-> Opt("float")]

HistoricalWeather ==
    [latitude |-> Req("float"), longitude |-> Req("float"),
     elevation |-> Opt("float"), timezone |-> Opt("str"),
     timezone_abbreviation |-> Opt("str"),
     hourly |-> Opt("HourlyWeather"), daily |-> Opt("DailyWeather")]

HourlyAirQuality ==
    [time |-> ReqList("str"),
     pm10 |-> OptListOpt("float"), pm2_5 |-> OptListOpt("float"),
     carbon_monoxide |-> OptListOpt("float"), nitrogen_dioxide |-> OptListOpt("float"),
     sulphur_dioxide |-> OptListOpt("float"), ozone |-> OptListOpt("float"),
     dust |-> OptListOpt("float"), uv_index |-> OptListOpt("float"),
     us_aqi |-> OptListOpt("int"), european_aqi |-> OptListOpt("int")]

AirQualityResponse ==
    [latitude |-> Req("float"), longitude |-> Req("float"),
     elevation |-> Opt("float"), timezone |-> Opt("str"),
     hourly |-> Opt("HourlyAirQuality")]

HourlyMarine ==
    [time |-> ReqList("str"),
     wave_height |-> OptListOpt("float"), wave_direction |-> OptListOpt("float"),
     wave_period |-> OptListOpt("float"), wind_wave_height |-> OptListOpt("float"),
     wind_wave_direction |-> OptListOpt("float"), wind_wave_period |-> OptListOpt("float"),
     swell_wave_height |-> OptListOpt("float"), swell_wave_direction |-> OptListOpt("float"),
     swell_wave_period |-> OptListOpt("float"),
     ocean_current_velocity |-> OptListOpt("float"),
     ocean_current_direction |-> OptListOpt("float"),
     sea_level_height_msl |-> OptListOpt("float")]

DailyMarine ==
    [time |-> ReqList("str"),
     wave_height_max |-> OptListOpt("float"),
     wave_direction_dominant |-> OptListOpt("float"),
     wave_period_max |-> OptListOpt("float")]

MarineForecast ==
    [latitude |-> Req("float"), longitude |-> Req("float"),
     elevation |-> Opt("float"), timezone |-> Opt("str"),
     hourly |-> Opt("HourlyMarine"), daily |-> Opt("DailyMarine")]

WeatherCodeInterpretation ==
    [code |-> Req("int"), description |-> Req("str"), severity |-> Req("str")]

ModelNames ==
    {"CurrentWeather", "HourlyWeather", "DailyWeather", "WeatherForecast",
     "GeocodingResult", "GeocodingResponse", "HistoricalWeather",
     "HourlyAirQuality", "AirQualityResponse", "HourlyMarine", "DailyMarine",
     "MarineForecast", "WeatherCodeInterpretation"}

\* The declared fields of a model class, by class name.
Schema(name) ==
    CASE name = "CurrentWeather" -> CurrentWeather
      [] name = "HourlyWeather" -> HourlyWeather
      [] name = "DailyWeather" -> DailyWeather
      [] name = "WeatherForecast" -> WeatherForecast
      [] name = "GeocodingResult" -> GeocodingResult
      [] name = "GeocodingResponse" -> GeocodingResponse
      [] name = "HistoricalWeather" -> HistoricalWeather
      [] name = "HourlyAirQuality" -> HourlyAirQuality
      [] name = "AirQualityResponse" -> AirQualityResponse
      [] name = "HourlyMarine" -> HourlyMarine
      [] name = "DailyMarine" -> DailyMarine
      [] name = "MarineForecast" -> MarineForecast
      [] name = "WeatherCodeInterpretation" -> WeatherCodeInterpretation

\* Mutant: the daily classes lack their model_config.
ExtraAllowModels_hourly_only == {"HourlyWeather", "HourlyAirQuality", "HourlyMarine"}

\* The classes that set model_config = ConfigDict(extra="allow").
ExtraAllowModels ==
    {"HourlyWeather", "DailyWeather", "HourlyAirQuality", "HourlyMarine", "DailyMarine"}

\* Mutant: every class keeps its extra fields.
ExtraPolicy_allow_all(name) == "allow"

\* pydantic's extra policy of a class: "ignore" unless model_config says "allow".
ExtraPolicy(name) == IF name \in ExtraAllowModels THEN "allow" ELSE "ignore"

(***************************************************************************)
(* Validation, as pydantic (v2, lax mode) performs it for the field types  *)
(* the schema uses.  A result is [ok, v, errs]: v is the validated value   *)
(* and errs the locations of the fields that failed.                       *)
(***************************************************************************)
Ok(val) == [ok |-> TRUE, v |-> val, errs |-> {}]
Fail == [ok |-> FALSE, v |-> None, errs |-> {<<>>}]
At(loc, errs) == {<<loc>> \o e : e \in errs}

\* The strings of the model that Python parses as a number, with their value.
NumericStr == ("7" :> 7)

\* float: an int, a bool or a numeric string is converted; int: a float
\* converts only without a fractional part; str: only a str is accepted.
ValidateScalar(kind, x) ==
    CASE kind = "float" ->
           CASE Kind(x) = "float" -> Ok(x)
             [] Kind(x) = "int" -> Ok(PyFloat(2 * Val(x)))
             [] Kind(x) = "bool" -> Ok(PyFloat(IF Val(x) THEN 2 ELSE 0))
             [] Kind(x) = "str" /\ Val(x) \in DOMAIN NumericStr -> Ok(PyFloat(2 * NumericStr[Val(x)]))
             [] OTHER -> Fail
      [] kind = "int" ->
           CASE Kind(x) = "int" -> Ok(x)
             [] Kind(x) = "bool" -> Ok(PyInt(IF Val(x) THEN 1 ELSE 0))
             [] Kind(x) = "float" /\ Val(x) % 2 = 0 -> Ok(PyInt(Val(x) \div 2))
             [] Kind(x) = "str" /\ Val(x) \in DOMAIN NumericStr -> Ok(PyInt(NumericStr[Val(x)]))
             [] OTHER -> Fail
      [] kind = "str" -> IF Kind(x) = "str" THEN Ok(x) ELSE Fail
      [] OTHER -> Fail

RECURSIVE ValidateModel(_, _)

ValidateAs(kind, x) ==
    IF kind \in ModelNames THEN ValidateModel(kind, x) ELSE ValidateScalar(kind, x)

\* Mutant: a null entry is rejected even where the elements are Optional.
ValidateList_reject_null(elem, elemopt, x) ==
    IF Kind(x) # "arr" THEN Fail
    ELSE LET r == [i \in 1..Len(Val(x)) |->
                     IF IsNull(Val(x)[i]) THEN Fail ELSE ValidateAs(elem, Val(x)[i])]
         IN  IF \A i \in 1..Len(Val(x)) : r[i].ok
             THEN Ok(PyList([i \in 1..Len(Val(x)) |-> r[i].v]))
             ELSE [ok |-> FALSE, v |-> None,
                   errs |-> UNION {At(ToString(i - 1), r[i].errs) : i \in 1..Len(Val(x))}]

\* Mutant: the entries that fail validation are left out of the list.
ValidateList_skip_invalid(elem, elemopt, x) ==
    IF Kind(x) # "arr" THEN Fail
    ELSE LET r == [i \in 1..Len(Val(x)) |->
                     IF IsNull(Val(x)[i])
                     THEN (IF elemopt THEN Ok(None) ELSE Fail)
                     ELSE ValidateAs(elem, Val(x)[i])]
             kept == SelectSeq(r, LAMBDA e : e.ok)
         IN  Ok(PyList([i \in 1..Len(kept) |-> kept[i].v]))

\* list[elem] or list[Optional[elem]]: every entry is validated in place.
ValidateList(elem, elemopt, x) ==
    IF Kind(x) # "arr" THEN Fail
    ELSE LET r == [i \in 1..Len(Val(x)) |->
                     IF IsNull(Val(x)[i])
                     THEN (IF elemopt THEN Ok(None) ELSE Fail)
                     ELSE ValidateAs(elem, Val(x)[i])]
         IN  IF \A i \in 1..Len(Val(x)) : r[i].ok
             THEN Ok(PyList([i \in 1..Len(Val(x)) |-> r[i].v]))
             ELSE [ok |-> FALSE, v |-> None,
                   errs |-> UNION {At(ToString(i - 1), r[i].errs) : i \in 1..Len(Val(x))}]

\* A field that is present: None is accepted only by an Optional field.
ValidateField(d, x) ==
    IF IsNull(x) THEN (IF d.req THEN Fail ELSE Ok(None))
    ELSE IF d.kind = "list" THEN ValidateList(d.elem, d.elemopt, x)
    ELSE ValidateAs(d.kind, x)

\* Mutant: a missing field takes the default None, required or not.
MissingField_default_none(d) == Ok(None)

\* Mutant: every field is required.
MissingField_all_required(d) == Fail

\* A field that is missing: an error if required, else the default None.
MissingField(d) == IF d.req THEN Fail ELSE Ok(None)

\* The undeclared keys of the input that the instance keeps.
KeptExtra(name, x) ==
    IF ExtraPolicy(name) = "allow"
    THEN [e \in (DOMAIN Val(x)) \ DOMAIN Schema(name) |-> Val(x)[e]]
    ELSE EmptyMap

ValidateModel(name, x) ==
    IF Kind(x) # "obj" THEN Fail
    ELSE LET S == Schema(name)
             r == [f \in DOMAIN S |->
                     IF f \in DOMAIN Val(x) THEN ValidateField(S[f], Val(x)[f])
                     ELSE MissingField(S[f])]
         IN  IF \A f \in DOMAIN S : r[f].ok
             THEN Ok(Instance(name, [f \in DOMAIN S |-> r[f].v], KeptExtra(name, x)))
             ELSE [ok |-> FALSE, v |-> None,
                   errs |-> UNION {At(f, r[f].errs) : f \in DOMAIN S}]

\* `Model(**data)`: unpacking needs a mapping, then the class validates it.
Construct(name, data) ==
    IF Kind(data) # "obj" THEN [ok |-> FALSE, v |-> None, error |-> "TypeError", errs |-> {}]
    ELSE LET r == ValidateModel(name, data)
         IN  [ok |-> r.ok, v |-> r.v,
              error |-> IF r.ok THEN "" ELSE "ValidationError", errs |-> r.errs]

\* model_dump(): the declared fields, dumped in turn, and the kept extras.
RECURSIVE model_dump(_)
model_dump(x) ==
    CASE Kind(x) = "model" ->
           PyDict([f \in DOMAIN Val(x).fields |-> model_dump(Val(x).fields[f])] @@ Val(x).extra)
      [] Kind(x) = "arr" -> PyList([i \in 1..Len(Val(x)) |-> model_dump(Val(x)[i])])
      [] OTHER -> x

(***************************************************************************)
(* server.py: constants.                                                   *)
(***************************************************************************)
FORECAST_API == "https://api.open-meteo.com/v1/forecast"
GEOCODING_API == "https://geocoding-api.open-meteo.com/v1/search"
HISTORICAL_API == "https://archive-api.open-meteo.com/v1/archive"
AIR_QUALITY_API == "https://air-quality-api.open-meteo.com/v1/air-quality"
MARINE_API == "https://marine-api.open-meteo.com/v1/marine"

\* The timeout, in seconds, passed to every client.get.
TIMEOUT == 30

Entry(d, s) == [description |-> d, severity |-> s]

WEATHER_CODES ==
    (0 :> Entry("Clear sky", "clear")) @@
    (1 :> Entry("Mainly clear", "clear")) @@
    (2 :> Entry("Partly cloudy", "cloudy")) @@
    (3 :> Entry("Overcast", "cloudy")) @@
    (45 :> Entry("Fog", "fog")) @@
    (48 :> Entry("Depositing rime fog", "fog")) @@
    (51 :> Entry("Light drizzle", "drizzle")) @@
    (53 :> Entry("Moderate drizzle", "drizzle")) @@
    (55 :> Entry("Dense drizzle", "drizzle")) @@
    (56 :> Entry("Light freezing drizzle", "freezing")) @@
    (57 :> Entry("Dense freezing drizzle", "freezing")) @@
    (61 :> Entry("Slight rain", "rain")) @@
    (63 :> Entry("Moderate rain", "rain")) @@
    (65 :> Entry("Heavy rain", "rain")) @@
    (66 :> Entry("Light freezing rain", "freezing")) @@
    (67 :> Entry("Heavy freezing rain", "freezing")) @@
    (71 :> Entry("Slight snow fall", "snow")) @@
    (73 :> Entry("Moderate snow fall", "snow")) @@
    (75 :> Entry("Heavy snow fall", "snow")) @@
    (77 :> Entry("Snow grains", "snow")) @@
    (80 :> Entry("Slight rain showers", "showers")) @@
    (81 :> Entry("Moderate rain showers", "showers")) @@
    (82 :> Entry("Violent rain showers", "showers")) @@
    (85 :> Entry("Slight snow showers", "snow")) @@
    (86 :> Entry("Heavy snow showers", "snow")) @@
    (95 :> Entry("Thunderstorm", "thunderstorm")) @@
    (96 :> Entry("Thunderstorm with slight hail", "thunderstorm")) @@
    (99 :> Entry("Thunderstorm with heavy hail", "thunderstorm"))

\* The module-level dict WEATHER_CODES, as it stands while the process runs.
VARIABLE weather_codes

AIR_QUALITY_DEFAULT_HOURLY ==
    "pm10,pm2_5,carbon_monoxide,nitrogen_dioxide,sulphur_dioxide,ozone,us_aqi,european_aqi"

MARINE_DEFAULT_HOURLY ==
    "wave_height,wave_direction,wave_period,wind_wave_height,swell_wave_height,sea_level_height_msl"

(***************************************************************************)
(* server.py: the body of each tool up to its request.                     *)
(***************************************************************************)
\* Python truthiness of an argument: None, "", False and 0 are false.
\* Mutant: `is not None` in place of the truth value.
Truthy_not_none(x) == Kind(x) # "null"

Truthy(x) ==
    CASE Kind(x) = "null" -> FALSE
      [] Kind(x) = "str" -> Val(x) # ""
      [] Kind(x) = "bool" -> Val(x)
      [] Kind(x) = "int" -> Val(x) # 0
      [] Kind(x) = "float" -> Val(x) # 0
      [] OTHER -> TRUE

\* `if flag: params[key] = val`
SetIf(flag, key, val, p) == IF flag THEN (key :> val) @@ p ELSE p

\* Mutant: the else branch is lost, so an omitted list sends no parameter.
SetOrDefault_no_else(arg, key, default, p) ==
    IF Truthy(arg) THEN (key :> arg) @@ p ELSE p

\* `if arg: params[key] = arg else: params[key] = default`
SetOrDefault(arg, key, default, p) ==
    IF Truthy(arg) THEN (key :> arg) @@ p ELSE (key :> PyStr(default)) @@ p

\* Mutant: the flag is always sent, as "true" or "false".
get_weather_forecast_explicit_flag(a) ==
    LET params == [latitude |-> a.latitude, longitude |-> a.longitude,
                   temperature_unit |-> a.temperature_unit,
                   wind_speed_unit |-> a.wind_speed_unit,
                   precipitation_unit |-> a.precipitation_unit,
                   timezone |-> a.timezone, forecast_days |-> a.forecast_days,
                   current_weather |->
                       IF Truthy(a.current_weather) THEN PyStr("true") ELSE PyStr("false")]
        p2 == SetIf(Truthy(a.hourly), "hourly", a.hourly, params)
    IN  SetIf(Truthy(a.daily), "daily", a.daily, p2)

\* Mutant: the timezone argument is not passed on; the request always asks
\* for "auto".
get_weather_forecast_fixed_timezone(a) ==
    LET params == [latitude |-> a.latitude, longitude |-> a.longitude,
                   temperature_unit |-> a.temperature_unit,
                   wind_speed_unit |-> a.wind_speed_unit,
                   precipitation_unit |-> a.precipitation_unit,
                   timezone |-> PyStr("auto"), forecast_days |-> a.forecast_days]
        p1 == SetIf(Truthy(a.current_weather), "current_weather", PyStr("true"), params)
        p2 == SetIf(Truthy(a.hourly), "hourly", a.hourly, p1)
    IN  SetIf(Truthy(a.daily), "daily", a.daily, p2)

get_weather_forecast(a) ==
    LET params == [latitude |-> a.latitude, longitude |-> a.longitude,
                   temperature_unit |-> a.temperature_unit,
                   wind_speed_unit |-> a.wind_speed_unit,
                   precipitation_unit |-> a.precipitation_unit,
                   timezone |-> a.timezone, forecast_days |-> a.forecast_days]
        p1 == SetIf(Truthy(a.current_weather), "current_weather", PyStr("true"), params)
        p2 == SetIf(Truthy(a.hourly), "hourly", a.hourly, p1)
    IN  SetIf(Truthy(a.daily), "daily", a.daily, p2)

geocode_location(a) ==
    [name |-> a.name, count |-> a.count, language |-> a.language, format |-> a.format]

get_historical_weather(a) ==
    LET params == [latitude |-> a.latitude, longitude |-> a.longitude,
                   start_date |-> a.start_date, end_date |-> a.end_date,
                   temperature_unit |-> a.temperature_unit,
                   wind_speed_unit |-> a.wind_speed_unit,
                   precipitation_unit |-> a.precipitation_unit,
                   timezone |-> a.timezone]
        p1 == SetIf(Truthy(a.hourly), "hourly", a.hourly, params)
    IN  SetIf(Truthy(a.daily), "daily", a.daily, p1)

get_air_quality(a) ==
    LET params == [latitude |-> a.latitude, longitude |-> a.longitude,
                   timezone |-> a.timezone, domains |-> a.domains]
    IN  SetOrDefault(a.hourly, "hourly", AIR_QUALITY_DEFAULT_HOURLY, params)

get_marine_forecast(a) ==
    LET params == [latitude |-> a.latitude, longitude |-> a.longitude,
                   timezone |-> a.timezone, forecast_days |-> a.forecast_days]
        p1 == SetOrDefault(a.hourly, "hourly", MARINE_DEFAULT_HOURLY, params)
    IN  SetIf(Truthy(a.daily), "daily", a.daily, p1)

\* Mutant: the table is indexed without the membership test, so a code that
\* is no key raises KeyError.
interpret_weather_code_unguarded(weather_code) ==
    IF weather_code \in DOMAIN weather_codes
    THEN ValidateModel("WeatherCodeInterpretation",
             PyDict([code |-> PyInt(weather_code),
                     description |-> PyStr(weather_codes[weather_code].description),
                     severity |-> PyStr(weather_codes[weather_code].severity)]))
    ELSE [ok |-> FALSE, v |-> None, errs |-> {<<"KeyError">>}]

\* Mutant: `if weather_code and weather_code in WEATHER_CODES`, which sends
\* code 0 to the unknown branch.
interpret_weather_code_falsy_zero(weather_code) ==
    IF weather_code # 0 /\ weather_code \in DOMAIN weather_codes
    THEN ValidateModel("WeatherCodeInterpretation",
             PyDict([code |-> PyInt(weather_code),
                     description |-> PyStr(weather_codes[weather_code].description),
                     severity |-> PyStr(weather_codes[weather_code].severity)]))
    ELSE ValidateModel("WeatherCodeInterpretation",
             PyDict([code |-> PyInt(weather_code),
                     description |-> PyStr("Unknown weather code: " \o ToString(weather_code)),
                     severity |-> PyStr("unknown")]))

\* The whole of interpret_weather_code: a table lookup, no request.
interpret_weather_code(weather_code) ==
    IF weather_code \in DOMAIN weather_codes
    THEN ValidateModel("WeatherCodeInterpretation",
             PyDict([code |-> PyInt(weather_code),
                     description |-> PyStr(weather_codes[weather_code].description),
                     severity |-> PyStr(weather_codes[weather_code].severity)]))
    ELSE ValidateModel("WeatherCodeInterpretation",
             PyDict([code |-> PyInt(weather_code),
                     description |-> PyStr("Unknown weather code: " \o ToString(weather_code)),
                     severity |-> PyStr("unknown")]))

NetworkTools ==
    {"get_weather_forecast", "geocode_location", "get_historical_weather",
     "get_air_quality", "get_marine_forecast"}

\* The query parameters a network tool assembles from its arguments.
BuildParams(t, a) ==
    CASE t = "get_weather_forecast" -> get_weather_forecast(a)
      [] t = "geocode_location" -> geocode_location(a)
      [] t = "get_historical_weather" -> get_historical_weather(a)
      [] t = "get_air_quality" -> get_air_quality(a)
      [] t = "get_marine_forecast" -> get_marine_forecast(a)

\* The URL a network tool passes to client.get.
\* Mutant: the marine tool was copied from the forecast tool, URL included.
ToolUrl_marine_copy(t) ==
    CASE t = "get_weather_forecast" -> FORECAST_API
      [] t = "geocode_location" -> GEOCODING_API
      [] t = "get_historical_weather" -> HISTORICAL_API
      [] t = "get_air_quality" -> AIR_QUALITY_API
      [] t = "get_marine_forecast" -> FORECAST_API

ToolUrl(t) ==
    CASE t = "get_weather_forecast" -> FORECAST_API
      [] t = "geocode_location" -> GEOCODING_API
      [] t = "get_historical_weather" -> HISTORICAL_API
      [] t = "get_air_quality" -> AIR_QUALITY_API
      [] t = "get_marine_forecast" -> MARINE_API

\* The class a network tool constructs from the parsed body.
ToolModel(t) ==
    CASE t = "get_weather_forecast" -> "WeatherForecast"
      [] t = "geocode_location" -> "GeocodingResponse"
      [] t = "get_historical_weather" -> "HistoricalWeather"
      [] t = "get_air_quality" -> "AirQualityResponse"
      [] t = "get_marine_forecast" -> "MarineForecast"

(***************************************************************************)
(* The response bodies the upstream service may answer with.  Each tool    *)
(* has a well-formed body holding every declared field; the bodies of the  *)
(* model are that body and every body one edit away from it: a key or a    *)
(* list entry removed, a value or a list entry replaced, a key added.      *)
(***************************************************************************)
\* The number of timestamps of a well-formed time series.
SeqLen == 2

\* The 0-based position of a list entry, as a path element.
Index(i) == ToString(i - 1)
EntryAt(x, p) == CHOOSE i \in 1..Len(Val(x)) : Index(i) = p

RECURSIVE Paths(_)
Paths(x) ==
    {<<>>} \cup
    CASE Kind(x) = "obj" -> UNION {At(key, Paths(Val(x)[key])) : key \in DOMAIN Val(x)}
      [] Kind(x) = "arr" -> UNION {At(Index(i), Paths(Val(x)[i])) : i \in 1..Len(Val(x))}
      [] OTHER -> {}

RECURSIVE Get(_, _)
Get(x, path) ==
    IF path = <<>> THEN x
    ELSE IF Kind(x) = "obj" THEN Get(Val(x)[Head(path)], Tail(path))
    ELSE Get(Val(x)[EntryAt(x, Head(path))], Tail(path))

\* x with val at path; the last key of path may be a new one.
RECURSIVE Put(_, _, _)
Put(x, path, val) ==
    IF path = <<>> THEN val
    ELSE IF Kind(x) = "obj"
    THEN With(x, Head(path),
              IF Len(path) = 1 THEN val ELSE Put(Val(x)[Head(path)], Tail(path), val))
    ELSE LET n == EntryAt(x, Head(path))
         IN  PyList([i \in 1..Len(Val(x)) |->
                       IF i = n THEN Put(Val(x)[i], Tail(path), val) ELSE Val(x)[i]])

\* x without the key or the list entry at path.
RECURSIVE Del(_, _)
Del(x, path) ==
    IF Len(path) = 1
    THEN IF Kind(x) = "obj" THEN Without(x, Head(path))
         ELSE LET n == EntryAt(x, Head(path))
              IN  PyList([i \in 1..(Len(Val(x)) - 1) |->
                            IF i < n THEN Val(x)[i] ELSE Val(x)[i + 1]])
    ELSE IF Kind(x) = "obj"
    THEN With(x, Head(path), Del(Val(x)[Head(path)], Tail(path)))
    ELSE LET n == EntryAt(x, Head(path))
         IN  PyList([i \in 1..Len(Val(x)) |->
                       IF i = n THEN Del(Val(x)[i], Tail(path)) ELSE Val(x)[i]])

\* A series of SeqLen readings, and one of SeqLen timestamps.
Readings == PyList([i \in 1..SeqLen |-> PyFloat(2 * i + 1)])
Counts == PyList([i \in 1..SeqLen |-> PyInt(40 + i)])
Times == PyList([i \in 1..SeqLen |-> PyStr("2024-01-01T0" \o ToString(i - 1) \o ":00")])

\* A block holding every field of a series class: its time and its readings.
SeriesBody(name) ==
    PyDict([f \in DOMAIN Schema(name) |->
              IF Schema(name)[f].elem = "str" THEN Times
              ELSE IF Schema(name)[f].elem = "int" THEN Counts
              ELSE Readings])

CurrentWeatherBody ==
    PyDict([temperature |-> PyFloat(31), windspeed |-> PyFloat(21),
            winddirection |-> PyInt(270), weathercode |-> PyInt(61),
            time |-> PyStr("2024-01-01T00:00")])

ForecastBody ==
    PyDict([latitude |-> PyFloat(103), longitude |-> PyFloat(-1),
            elevation |-> PyInt(25), timezone |-> PyStr("Europe/London"),
            timezone_abbreviation |-> PyStr("GMT"),
            current_weather |-> CurrentWeatherBody,
            hourly |-> SeriesBody("HourlyWeather"),
            daily |-> SeriesBody("DailyWeather")])

HistoricalBody ==
    PyDict([latitude |-> PyFloat(103), longitude |-> PyFloat(-1),
            elevation |-> PyInt(25), timezone |-> PyStr("Europe/London"),
            timezone_abbreviation |-> PyStr("GMT"),
            hourly |-> SeriesBody("HourlyWeather"),
            daily |-> SeriesBody("DailyWeather")])

AirQualityBody ==
    PyDict([latitude |-> PyFloat(103), longitude |-> PyFloat(-1),
            elevation |-> PyInt(25), timezone |-> PyStr("Europe/London"),
            hourly |-> SeriesBody("HourlyAirQuality")])

MarineBody ==
    PyDict([latitude |-> PyFloat(103), longitude |-> PyFloat(-1),
            elevation |-> PyInt(0), timezone |-> PyStr("Europe/London"),
            hourly |-> SeriesBody("HourlyMarine"),
            daily |-> SeriesBody("DailyMarine")])

Place(id, country, code, admin1, tz, pop) ==
    PyDict([id |-> PyInt(id), name |-> PyStr("Paris"),
            latitude |-> PyFloat(97), longitude |-> PyFloat(5),
            elevation |-> PyInt(42), feature_code |-> PyStr("PPLC"),
            country_code |-> PyStr(code), country |-> PyStr(country),
            country_id |-> PyInt(id + 1), timezone |-> PyStr(tz),
            population |-> PyInt(pop), postcodes |-> PyList(<<PyStr("75001")>>),
            admin1 |-> PyStr(admin1), admin2 |-> PyStr("a2"),
            admin3 |-> PyStr("a3"), admin4 |-> PyStr("a4")])

GeocodingBody ==
    PyDict([results |->
              PyList(<<Place(2988507, "France", "FR", "Ile-de-France", "Europe/Paris", 2138551),
                       Place(4717560, "United States", "US", "Texas", "America/Chicago", 24782)>>),
            generationtime_ms |-> PyFloat(1)])

\* The well-formed body of a tool.
Base(t) ==
    CASE t = "get_weather_forecast" -> ForecastBody
      [] t = "geocode_location" -> GeocodingBody
      [] t = "get_historical_weather" -> HistoricalBody
      [] t = "get_air_quality" -> AirQualityBody
      [] t = "get_marine_forecast" -> MarineBody

\* The values an edit puts in place of a value, and those it adds under a new key.
Replacements == {None, PyStr("abc"), PyStr("7"), PyFloat(3), PyBool(TRUE)}
Additions == {PyInt(3600), PyList(<<PyFloat(5), None>>)}
NewKey == "uv_index_clear_sky"

ObjPaths(b) == {p \in Paths(b) : Kind(Get(b, p)) = "obj"}
ListPaths(b) == {p \in Paths(b) : Kind(Get(b, p)) = "arr"}

\* The list x with null at the positions of S.
Nulled(x, S) == PyList([i \in 1..Len(Val(x)) |-> IF i \in S THEN None ELSE Val(x)[i]])

\* The bodies that have null at some positions of one list of b.
NullEdits(b) ==
    UNION {{Put(b, p, Nulled(Get(b, p), S)) : S \in SUBSET (1..Len(Val(Get(b, p))))} :
             p \in ListPaths(b)}

Edits(b) ==
    {b}
    \cup {Del(b, p) : p \in Paths(b) \ {<<>>}}
    \cup {Put(b, p, val) : p \in Paths(b) \ {<<>>}, val \in Replacements}
    \cup {Put(b, p \o <<NewKey>>, val) : p \in ObjPaths(b), val \in Additions}
    \cup NullEdits(b)

\* A body that holds only the required fields of class name, at the top level.
Minimal(name, b) ==
    PyDict([f \in {g \in DOMAIN Schema(name) : Schema(name)[g].req} |-> Val(b)[f]])

\* The upstream's error body, and bodies that are no JSON object.
ErrorBody == PyDict([error |-> PyBool(TRUE), reason |-> PyStr("abc")])
Unparsable == [text |-> "<html>"]
OtherBodies == {ErrorBody, PyDict(EmptyMap), PyList(<<>>), None, Unparsable}

\* The bodies the upstream may answer tool t with: the well-formed body and
\* its edits, the body cut down to the required fields, and the others.
Bodies(t) ==
    OtherBodies \cup
    CASE t = "geocode_location" -> Edits(Base(t))
      [] t \in {"get_weather_forecast", "get_historical_weather", "get_air_quality",
                "get_marine_forecast"} ->
           Edits(Base(t)) \cup {Minimal(ToolModel(t), Base(t))}
      [] OTHER -> {}

(***************************************************************************)
(* The arguments a host may call the tools with.                           *)
(***************************************************************************)
Latitudes == {PyFloat(103), PyFloat(-181)}
Longitudes == {PyFloat(-1)}
TemperatureUnits == {PyStr("celsius"), PyStr("fahrenheit")}
Timezones == {PyStr("auto"), PyStr("Europe/London")}
Days == {PyInt(-1), PyInt(0), PyInt(7), PyInt(17)}
Dates == {PyStr("2024-01-01"), PyStr("2024-01-07"), PyStr("yesterday")}
VariableLists(names) == {None, PyStr(""), PyStr(names)}

\* The weather codes a host passes: from CodeMargin below 0 up to MaxCode.
CodeMargin == 3
MaxCode == 201
MinCode == 0 - CodeMargin

Arguments(t) ==
    CASE t = "get_weather_forecast" ->
           [latitude : Latitudes, longitude : Longitudes,
            temperature_unit : TemperatureUnits, wind_speed_unit : {PyStr("kmh")},
            precipitation_unit : {PyStr("mm")}, timezone : Timezones,
            forecast_days : Days, current_weather : {PyBool(TRUE), PyBool(FALSE)},
            hourly : VariableLists("temperature_2m,precipitation"),
            daily : VariableLists("temperature_2m_max,sunrise")]
      [] t = "geocode_location" ->
           [name : {PyStr("Paris"), PyStr("Portland, Maine")},
            count : {PyInt(-1), PyInt(0), PyInt(1), PyInt(10)},
            language : {PyStr("en"), PyStr("fr")}, format : {PyStr("json")}]
      [] t = "get_historical_weather" ->
           [latitude : Latitudes, longitude : Longitudes,
            start_date : Dates, end_date : Dates,
            temperature_unit : TemperatureUnits, wind_speed_unit : {PyStr("kmh")},
            precipitation_unit : {PyStr("mm")}, timezone : {PyStr("auto")},
            hourly : VariableLists("temperature_2m,precipitation"),
            daily : VariableLists("temperature_2m_max,sunrise")]
      [] t = "get_air_quality" ->
           [latitude : Latitudes, longitude : Longitudes, timezone : Timezones,
            hourly : VariableLists("pm10,ozone,us_aqi"),
            domains : {PyStr("auto"), PyStr("cams_europe")}]
      [] t = "get_marine_forecast" ->
           [latitude : Latitudes, longitude : Longitudes, timezone : Timezones,
            hourly : VariableLists("wave_height,swell_wave_period"),
            daily : VariableLists("wave_height_max"),
            forecast_days : Days]
      [] t = "interpret_weather_code" ->
           [weather_code : {PyInt(c) : c \in MinCode..MaxCode}]

\* The call of each tool that the model answers with every body of the tool.
ReferenceCall(t) ==
    CASE t = "get_weather_forecast" ->
           [latitude |-> PyFloat(103), longitude |-> PyFloat(-1),
            temperature_unit |-> PyStr("celsius"), wind_speed_unit |-> PyStr("kmh"),
            precipitation_unit |-> PyStr("mm"), timezone |-> PyStr("auto"),
            forecast_days |-> PyInt(7), current_weather |-> PyBool(TRUE),
            hourly |-> None, daily |-> None]
      [] t = "geocode_location" ->
           [name |-> PyStr("Paris"), count |-> PyInt(1),
            language |-> PyStr("en"), format |-> PyStr("json")]
      [] t = "get_historical_weather" ->
           [latitude |-> PyFloat(103), longitude |-> PyFloat(-1),
            start_date |-> PyStr("2024-01-01"), end_date |-> PyStr("2024-01-07"),
            temperature_unit |-> PyStr("celsius"), wind_speed_unit |-> PyStr("kmh"),
            precipitation_unit |-> PyStr("mm"), timezone |-> PyStr("auto"),
            hourly |-> None, daily |-> None]
      [] t = "get_air_quality" ->
           [latitude |-> PyFloat(103), longitude |-> PyFloat(-1),
            timezone |-> PyStr("auto"), hourly |-> None, domains |-> PyStr("auto")]
      [] t = "get_marine_forecast" ->
           [latitude |-> PyFloat(103), longitude |-> PyFloat(-1),
            timezone |-> PyStr("auto"), hourly |-> None, daily |-> None,
            forecast_days |-> PyInt(7)]

\* The bodies the upstream may answer a call with.  The tool passes the body
\* to the decoder without looking at its arguments, so the model varies one
\* side at a time: the reference call meets every body of the tool, every
\* other call the well-formed body and the error body.
Answers(t, a) ==
    IF a = ReferenceCall(t) THEN Bodies(t) ELSE {Base(t), ErrorBody}

(***************************************************************************)
(* httpx, as the tools use it.                                             *)
(***************************************************************************)
\* The status codes the upstream service answers with.
StatusCodes == {200, 301, 404, 500}

\* Mutant: only the 4xx and 5xx codes count as failures.
is_success_below_400(status) == status < 400

\* Response.is_success: the 2xx codes.
is_success(status) == status \in 200..299

\* response.raise_for_status(): raises HTTPStatusError unless is_success.
raise_for_status(r) == IF is_success(r.status) THEN "" ELSE "HTTPStatusError"

\* response.json(): the parsed body, or a JSONDecodeError.
json(r) ==
    IF Kind(r.body) = "text" THEN [ok |-> FALSE, v |-> None, error |-> "JSONDecodeError"]
    ELSE [ok |-> TRUE, v |-> r.body, error |-> ""]

\* The failures of client.get that are no response.
TransportErrors == {"ConnectError", "ReadTimeout"}

(***************************************************************************)
(* State.                                                                  *)
(***************************************************************************)
VARIABLES
    pc,            \* where the invocation stands
    tool,          \* the tool invoked
    args,          \* its arguments
    params,        \* the query parameters assembled so far
    client,        \* the httpx.AsyncClient of the invocation: none, open, closed
    request,       \* the request in flight
    nreq,          \* the requests the invocation has issued
    response,      \* the response client.get returned to the invocation
    data,          \* the parsed body
    result,        \* the record returned
    error,         \* the exception raised
    at,            \* where main() stands
    argv,          \* sys.argv
    transport,     \* the local `transport` of main()
    levels,        \* the level of each logger main() may touch
    logged,        \* the records main() logged
    runs,          \* the calls of run(), each by its transport
    rpc,           \* where a call of the retry helper stands
    max_retries,   \* its arguments
    initial_delay,
    attempt,       \* its loop variable
    outcomes,      \* how each call of the wrapped function ended
    sleeps,        \* the delays it has slept, in order
    retried        \* what the helper returned or raised

\* The locals and the outcome of a tool invocation.
toolvars == <<pc, tool, args, params, client, request, nreq, response, data, result, error>>

\* What main() reads and writes.
mainvars == <<at, argv, transport, levels, logged, runs>>

\* The locals and the outcome of a call of the retry helper of the tests.
retryvars == <<rpc, max_retries, initial_delay, attempt, outcomes, sleeps, retried>>

vars == <<toolvars, weather_codes, mainvars, retryvars>>

Unset == [unset |-> 0]
NoRequest == [method |-> "", url |-> "", params |-> EmptyMap, timeout |-> 0]
NoResponse == [status |-> 0, body |-> Unset]
NoError == [type |-> "", locs |-> {}]
Raised(type, locs) == [type |-> type, locs |-> locs]

\* No invocation is in progress.
Idle ==
    /\ pc = "idle"
    /\ tool = ""
    /\ args = EmptyMap
    /\ params = EmptyMap
    /\ client = "none"
    /\ request = NoRequest
    /\ nreq = 0
    /\ response = NoResponse
    /\ data = Unset
    /\ result = Unset
    /\ error = NoError

\* The retry helper has not been called.
NoRetry ==
    /\ rpc = "idle"
    /\ max_retries = 0
    /\ initial_delay = 0
    /\ attempt = 0
    /\ outcomes = <<>>
    /\ sleeps = <<>>
    /\ retried = Unset

\* The levels of the logging module.
NOTSET == 0
DEBUG == 10
ERROR == 40

\* The loggers main() may touch, and the name of the program in sys.argv.
Loggers == {"chuk_mcp_server", "chuk_mcp_server.core", "chuk_mcp_server.stdio_transport", "httpx"}
Program == "chuk-mcp-open-meteo"

\* The module is imported and main() has not been called: the tools are
\* called directly, as the tests call them.
Init ==
    /\ Idle
    /\ weather_codes = WEATHER_CODES
    /\ at = "start"
    /\ argv = <<Program>>
    /\ transport = ""
    /\ levels = [l \in Loggers |-> NOTSET]
    /\ logged = <<>>
    /\ runs = <<>>
    /\ NoRetry

\* An exception leaves the function: its locals are gone, an open client is
\* closed by the `async with` block on the way out.  The response stays on
\* record until the host has taken the outcome.
\* Mutant: the client is opened without `async with`, so an exception
\* leaves it open.
Raise_leaks_client(type, locs) ==
    /\ pc' = "done"
    /\ error' = Raised(type, locs)
    /\ args' = EmptyMap
    /\ params' = EmptyMap
    /\ request' = NoRequest
    /\ data' = Unset
    /\ result' = Unset
    /\ UNCHANGED <<client, response>>

Raise(type, locs) ==
    /\ pc' = "done"
    /\ error' = Raised(type, locs)
    /\ client' = IF client = "open" THEN "closed" ELSE client
    /\ args' = EmptyMap
    /\ params' = EmptyMap
    /\ request' = NoRequest
    /\ data' = Unset
    /\ result' = Unset
    /\ UNCHANGED response

\* Mutant: a forecast horizon outside 1..16 is refused before any request.
Call_validated ==
    /\ pc = "idle"
    /\ \E t \in NetworkTools : \E a \in Arguments(t) :
         /\ tool' = t
         /\ IF "forecast_days" \in DOMAIN a /\ Val(a.forecast_days) \notin 1..16
            THEN /\ pc' = "done"
                 /\ args' = EmptyMap
                 /\ params' = EmptyMap
                 /\ error' = Raised("ValueError", {<<"forecast_days">>})
            ELSE /\ pc' = "built"
                 /\ args' = a
                 /\ params' = BuildParams(t, a)
                 /\ UNCHANGED error
    /\ nreq' = 0
    /\ UNCHANGED <<client, request, response, data, result>>
    /\ UNCHANGED <<weather_codes, mainvars, retryvars>>

\* The host calls a network tool: the function runs up to `async with`,
\* assembling params.
Call ==
    /\ pc = "idle"
    /\ \E t \in NetworkTools : \E a \in Arguments(t) :
         /\ tool' = t
         /\ args' = a
         /\ params' = BuildParams(t, a)
    /\ pc' = "built"
    /\ nreq' = 0
    /\ UNCHANGED <<client, request, response, data, result, error>>
    /\ UNCHANGED <<weather_codes, mainvars, retryvars>>

\* `async with httpx.AsyncClient() as client` and the call of client.get:
\* one GET is issued and the invocation awaits its response.
Send ==
    /\ pc = "built"
    /\ pc' = "awaiting"
    /\ client' = "open"
    /\ request' = [method |-> "GET", url |-> ToolUrl(tool), params |-> params,
                   timeout |-> TIMEOUT]
    /\ nreq' = nreq + 1
    /\ UNCHANGED <<tool, args, params, response, data, result, error>>
    /\ UNCHANGED <<weather_codes, mainvars, retryvars>>

\* The request reaches the upstream service and is no longer in flight.
Arrive ==
    /\ pc = "awaiting"
    /\ pc' = "pending"
    /\ request' = NoRequest
    /\ UNCHANGED <<tool, args, params, client, nreq, response, data, result, error>>
    /\ UNCHANGED <<weather_codes, mainvars, retryvars>>

\* The transport fails or times out: client.get raises.
TransportFailure ==
    /\ pc \in {"awaiting", "pending"}
    /\ \E e \in TransportErrors : Raise(e, {})
    /\ UNCHANGED <<tool, nreq>>
    /\ UNCHANGED <<weather_codes, mainvars, retryvars>>

\* The host cancels the task of the invocation while it awaits client.get:
\* the coroutine is to be resumed with CancelledError.
RequestCancel ==
    /\ pc \in {"awaiting", "pending"}
    /\ pc' = "cancelling"
    /\ UNCHANGED <<tool, args, params, client, request, nreq, response, data, result, error>>
    /\ UNCHANGED <<weather_codes, mainvars, retryvars>>

\* Mutant: the tool catches the cancellation and sends its request again.
Cancel_retry ==
    /\ pc = "cancelling"
    /\ pc' = "built"
    /\ request' = NoRequest
    /\ UNCHANGED <<tool, args, params, client, nreq, response, data, result, error>>
    /\ UNCHANGED <<weather_codes, mainvars, retryvars>>

\* `await client.get(...)` raises CancelledError: no tool catches it, so it
\* leaves the `async with` block, which closes the client and with it the
\* request, and then the function.
Cancel ==
    /\ pc = "cancelling"
    /\ Raise("CancelledError", {})
    /\ UNCHANGED <<tool, nreq>>
    /\ UNCHANGED <<weather_codes, mainvars, retryvars>>

\* The upstream answers: client.get returns the response.
Receive ==
    /\ pc = "pending"
    /\ pc' = "received"
    /\ \E status \in StatusCodes : \E body \in Answers(tool, args) :
         response' = [status |-> status, body |-> body]
    /\ UNCHANGED <<tool, args, params, client, request, nreq, data, result, error>>
    /\ UNCHANGED <<weather_codes, mainvars, retryvars>>

\* Mutant: a non-success status sends the request again instead of raising.
CheckStatus_retry ==
    /\ pc = "received"
    /\ IF raise_for_status(response) # ""
       THEN /\ pc' = "built"
            /\ UNCHANGED <<args, params, client, request, response, data, result, error>>
       ELSE /\ pc' = "checked"
            /\ UNCHANGED <<args, params, client, request, response, data, result, error>>
    /\ UNCHANGED <<tool, nreq>>
    /\ UNCHANGED <<weather_codes, mainvars, retryvars>>

\* response.raise_for_status()
CheckStatus ==
    /\ pc = "received"
    /\ IF raise_for_status(response) # ""
       THEN Raise(raise_for_status(response), {})
       ELSE /\ pc' = "checked"
            /\ UNCHANGED <<args, params, client, request, response, data, result, error>>
    /\ UNCHANGED <<tool, nreq>>
    /\ UNCHANGED <<weather_codes, mainvars, retryvars>>

\* data = response.json()
ParseBody ==
    /\ pc = "checked"
    /\ IF ~json(response).ok
       THEN Raise(json(response).error, {})
       ELSE /\ pc' = "parsed"
            /\ data' = json(response).v
            /\ UNCHANGED <<args, params, client, request, response, result, error>>
    /\ UNCHANGED <<tool, nreq>>
    /\ UNCHANGED <<weather_codes, mainvars, retryvars>>

\* The `async with` block ends: the client is closed.
CloseClient ==
    /\ pc = "parsed"
    /\ pc' = "closed"
    /\ client' = "closed"
    /\ UNCHANGED <<tool, args, params, request, nreq, response, data, result, error>>
    /\ UNCHANGED <<weather_codes, mainvars, retryvars>>

\* Mutant: geocode_location cuts the results of the body down to count
\* before it decodes them.
Decode_truncated ==
    /\ pc = "closed"
    /\ LET cut == IF /\ tool = "geocode_location"
                     /\ Has(data, "results")
                     /\ Kind(Val(data).results) = "arr"
                     /\ Val(args.count) \in 0..Len(Val(Val(data).results))
                  THEN With(data, "results",
                            PyList(SubSeq(Val(Val(data).results), 1, Val(args.count))))
                  ELSE data
           r == Construct(ToolModel(tool), cut)
       IN  IF ~r.ok
           THEN Raise(r.error, r.errs)
           ELSE /\ pc' = "done"
                /\ result' = r.v
                /\ data' = Unset
                /\ UNCHANGED <<args, params, client, request, response, error>>
    /\ UNCHANGED <<tool, nreq>>
    /\ UNCHANGED <<weather_codes, mainvars, retryvars>>

\* `return Model(**data)`
Decode ==
    /\ pc = "closed"
    /\ LET r == Construct(ToolModel(tool), data)
       IN  IF ~r.ok
           THEN Raise(r.error, r.errs)
           ELSE /\ pc' = "done"
                /\ result' = r.v
                /\ data' = Unset
                /\ UNCHANGED <<args, params, client, request, response, error>>
    /\ UNCHANGED <<tool, nreq>>
    /\ UNCHANGED <<weather_codes, mainvars, retryvars>>

\* Mutant: a code that is no key of the table is entered into it, so that
\* the next lookup finds it.
Interpret_memoize ==
    /\ pc = "idle"
    /\ pc' = "done"
    /\ tool' = "interpret_weather_code"
    /\ nreq' = 0
    /\ \E a \in Arguments("interpret_weather_code") :
         /\ args' = a
         /\ LET r == interpret_weather_code(Val(a.weather_code))
            IN  IF r.ok
                THEN result' = r.v /\ error' = NoError
                ELSE result' = Unset /\ error' = Raised("ValidationError", r.errs)
         /\ weather_codes' =
              IF Val(a.weather_code) \in DOMAIN weather_codes THEN weather_codes
              ELSE (Val(a.weather_code) :> Entry("Unknown", "unknown")) @@ weather_codes
    /\ UNCHANGED <<params, client, request, response, data>>
    /\ UNCHANGED <<mainvars, retryvars>>

\* The host calls interpret_weather_code: it returns without awaiting.
Interpret ==
    /\ pc = "idle"
    /\ pc' = "done"
    /\ tool' = "interpret_weather_code"
    /\ nreq' = 0
    /\ \E a \in Arguments("interpret_weather_code") :
         /\ args' = a
         /\ LET r == interpret_weather_code(Val(a.weather_code))
            IN  IF r.ok
                THEN result' = r.v /\ error' = NoError
                ELSE result' = Unset /\ error' = Raised("ValidationError", r.errs)
    /\ UNCHANGED <<params, client, request, response, data>>
    /\ UNCHANGED <<weather_codes, mainvars, retryvars>>

\* The host takes the outcome; the invocation is over.
Finish ==
    /\ pc = "done"
    /\ pc' = "idle"
    /\ tool' = ""
    /\ args' = EmptyMap
    /\ params' = EmptyMap
    /\ client' = "none"
    /\ request' = NoRequest
    /\ nreq' = 0
    /\ response' = NoResponse
    /\ data' = Unset
    /\ result' = Unset
    /\ error' = NoError
    /\ UNCHANGED <<weather_codes, mainvars, retryvars>>

Next ==
    \/ Call
    \/ Send
    \/ Arrive
    \/ TransportFailure
    \/ RequestCancel
    \/ Cancel
    \/ Receive
    \/ CheckStatus
    \/ ParseBody
    \/ CloseClient
    \/ Decode
    \/ Interpret
    \/ Finish

Spec == Init /\ [][Next]_vars

(***************************************************************************)
(* Several invocations at once.  The host may call a tool while another    *)
(* call awaits its response: each call is a coroutine of its own, with its *)
(* own locals and its own httpx.AsyncClient, and the scheduler runs one    *)
(* coroutine at a time up to its next await.  Under ConcurrentSpec every   *)
(* variable of an invocation is a function of the invocation.              *)
(***************************************************************************)
\* The number of invocations the host has open at once.
NumInvocations == 2
Invocations == 1..NumInvocations

\* The calls the host makes and the answers of the upstream.
ConcurrentCalls ==
    {[tool |-> "get_weather_forecast", args |-> ReferenceCall("get_weather_forecast")],
     [tool |-> "get_weather_forecast",
      args |-> [ReferenceCall("get_weather_forecast") EXCEPT !.timezone = PyStr("Europe/London")]],
     [tool |-> "get_marine_forecast", args |-> ReferenceCall("get_marine_forecast")]}
ConcurrentStatuses == {200, 500}
ConcurrentAnswers(t) == {Base(t), ErrorBody}

ConcurrentInit ==
    /\ pc = [i \in Invocations |-> "idle"]
    /\ tool = [i \in Invocations |-> ""]
    /\ args = [i \in Invocations |-> EmptyMap]
    /\ params = [i \in Invocations |-> EmptyMap]
    /\ client = [i \in Invocations |-> "none"]
    /\ request = [i \in Invocations |-> NoRequest]
    /\ nreq = [i \in Invocations |-> 0]
    /\ response = [i \in Invocations |-> NoResponse]
    /\ data = [i \in Invocations |-> Unset]
    /\ result = [i \in Invocations |-> Unset]
    /\ error = [i \in Invocations |-> NoError]
    /\ weather_codes = WEATHER_CODES
    /\ at = "start"
    /\ argv = <<Program>>
    /\ transport = ""
    /\ levels = [l \in Loggers |-> NOTSET]
    /\ logged = <<>>
    /\ runs = <<>>
    /\ NoRetry

\* An exception leaves the coroutine of invocation i.
RaiseOf(i, type, locs) ==
    /\ pc' = [pc EXCEPT ![i] = "done"]
    /\ error' = [error EXCEPT ![i] = Raised(type, locs)]
    /\ client' = [client EXCEPT ![i] = IF client[i] = "open" THEN "closed" ELSE client[i]]
    /\ args' = [args EXCEPT ![i] = EmptyMap]
    /\ params' = [params EXCEPT ![i] = EmptyMap]
    /\ request' = [request EXCEPT ![i] = NoRequest]
    /\ data' = [data EXCEPT ![i] = Unset]
    /\ result' = [result EXCEPT ![i] = Unset]
    /\ UNCHANGED response

\* Mutant: params is one dict of the module, shared by the coroutines: a
\* call that assembles its parameters overwrites those of a call that has
\* not sent its request yet.
CallOf_shared_params(i) ==
    /\ pc[i] = "idle"
    /\ \E c \in ConcurrentCalls :
         /\ tool' = [tool EXCEPT ![i] = c.tool]
         /\ args' = [args EXCEPT ![i] = c.args]
         /\ params' = [j \in Invocations |->
                         IF j = i \/ pc[j] = "built"
                         THEN BuildParams(c.tool, c.args) ELSE params[j]]
    /\ pc' = [pc EXCEPT ![i] = "built"]
    /\ nreq' = [nreq EXCEPT ![i] = 0]
    /\ UNCHANGED <<client, request, response, data, result, error>>
    /\ UNCHANGED <<weather_codes, mainvars, retryvars>>

\* The host calls a tool as invocation i.
CallOf(i) ==
    /\ pc[i] = "idle"
    /\ \E c \in ConcurrentCalls :
         /\ tool' = [tool EXCEPT ![i] = c.tool]
         /\ args' = [args EXCEPT ![i] = c.args]
         /\ params' = [params EXCEPT ![i] = BuildParams(c.tool, c.args)]
    /\ pc' = [pc EXCEPT ![i] = "built"]
    /\ nreq' = [nreq EXCEPT ![i] = 0]
    /\ UNCHANGED <<client, request, response, data, result, error>>
    /\ UNCHANGED <<weather_codes, mainvars, retryvars>>

SendOf(i) ==
    /\ pc[i] = "built"
    /\ pc' = [pc EXCEPT ![i] = "awaiting"]
    /\ client' = [client EXCEPT ![i] = "open"]
    /\ request' = [request EXCEPT ![i] =
                     [method |-> "GET", url |-> ToolUrl(tool[i]), params |-> params[i],
                      timeout |-> TIMEOUT]]
    /\ nreq' = [nreq EXCEPT ![i] = nreq[i] + 1]
    /\ UNCHANGED <<tool, args, params, response, data, result, error>>
    /\ UNCHANGED <<weather_codes, mainvars, retryvars>>

ArriveOf(i) ==
    /\ pc[i] = "awaiting"
    /\ pc' = [pc EXCEPT ![i] = "pending"]
    /\ request' = [request EXCEPT ![i] = NoRequest]
    /\ UNCHANGED <<tool, args, params, client, nreq, response, data, result, error>>
    /\ UNCHANGED <<weather_codes, mainvars, retryvars>>

TransportFailureOf(i) ==
    /\ pc[i] \in {"awaiting", "pending"}
    /\ \E e \in TransportErrors : RaiseOf(i, e, {})
    /\ UNCHANGED <<tool, nreq>>
    /\ UNCHANGED <<weather_codes, mainvars, retryvars>>

ReceiveOf(i) ==
    /\ pc[i] = "pending"
    /\ pc' = [pc EXCEPT ![i] = "received"]
    /\ \E status \in ConcurrentStatuses : \E body \in ConcurrentAnswers(tool[i]) :
         response' = [response EXCEPT ![i] = [status |-> status, body |-> body]]
    /\ UNCHANGED <<tool, args, params, client, request, nreq, data, result, error>>
    /\ UNCHANGED <<weather_codes, mainvars, retryvars>>

CheckStatusOf(i) ==
    /\ pc[i] = "received"
    /\ IF raise_for_status(response[i]) # ""
       THEN RaiseOf(i, raise_for_status(response[i]), {})
       ELSE /\ pc' = [pc EXCEPT ![i] = "checked"]
            /\ UNCHANGED <<args, params, client, request, response, data, result, error>>
    /\ UNCHANGED <<tool, nreq>>
    /\ UNCHANGED <<weather_codes, mainvars, retryvars>>

ParseBodyOf(i) ==
    /\ pc[i] = "checked"
    /\ IF ~json(response[i]).ok
       THEN RaiseOf(i, json(response[i]).error, {})
       ELSE /\ pc' = [pc EXCEPT ![i] = "parsed"]
            /\ data' = [data EXCEPT ![i] = json(response[i]).v]
            /\ UNCHANGED <<args, params, client, request, response, result, error>>
    /\ UNCHANGED <<tool, nreq>>
    /\ UNCHANGED <<weather_codes, mainvars, retryvars>>

CloseClientOf(i) ==
    /\ pc[i] = "parsed"
    /\ pc' = [pc EXCEPT ![i] = "closed"]
    /\ client' = [client EXCEPT ![i] = "closed"]
    /\ UNCHANGED <<tool, args, params, request, nreq, response, data, result, error>>
    /\ UNCHANGED <<weather_codes, mainvars, retryvars>>

DecodeOf(i) ==
    /\ pc[i] = "closed"
    /\ LET r == Construct(ToolModel(tool[i]), data[i])
       IN  IF ~r.ok
           THEN RaiseOf(i, r.error, r.errs)
           ELSE /\ pc' = [pc EXCEPT ![i] = "done"]
                /\ result' = [result EXCEPT ![i] = r.v]
                /\ data' = [data EXCEPT ![i] = Unset]
                /\ UNCHANGED <<args, params, client, request, response, error>>
    /\ UNCHANGED <<tool, nreq>>
    /\ UNCHANGED <<weather_codes, mainvars, retryvars>>

FinishOf(i) ==
    /\ pc[i] = "done"
    /\ pc' = [pc EXCEPT ![i] = "idle"]
    /\ tool' = [tool EXCEPT ![i] = ""]
    /\ args' = [args EXCEPT ![i] = EmptyMap]
    /\ params' = [params EXCEPT ![i] = EmptyMap]
    /\ client' = [client EXCEPT ![i] = "none"]
    /\ request' = [request EXCEPT ![i] = NoRequest]
    /\ nreq' = [nreq EXCEPT ![i] = 0]
    /\ response' = [response EXCEPT ![i] = NoResponse]
    /\ data' = [data EXCEPT ![i] = Unset]
    /\ result' = [result EXCEPT ![i] = Unset]
    /\ error' = [error EXCEPT ![i] = NoError]
    /\ UNCHANGED <<weather_codes, mainvars, retryvars>>

ConcurrentNext ==
    \E i \in Invocations :
        \/ CallOf(i)
        \/ SendOf(i)
        \/ ArriveOf(i)
        \/ TransportFailureOf(i)
        \/ ReceiveOf(i)
        \/ CheckStatusOf(i)
        \/ ParseBodyOf(i)
        \/ CloseClientOf(i)
        \/ DecodeOf(i)
        \/ FinishOf(i)

ConcurrentSpec == ConcurrentInit /\ [][ConcurrentNext]_vars

(***************************************************************************)
(* main(): the entry point of the program.  Under MainSpec the process     *)
(* starts with some command line and some levels of the loggers, main()    *)
(* runs, and no tool is invoked.                                           *)
(***************************************************************************)
\* The command lines the program is started with.
Argvs ==
    {<<Program>>, <<Program, "http">>, <<Program, "--http">>, <<Program, "stdio">>,
     <<Program, "HTTP">>, <<Program, "">>, <<Program, "stdio", "http">>,
     <<Program, "--http", "stdio">>}

\* The levels a logger may have when main() is called.
LevelChoices == {NOTSET, DEBUG, ERROR}

MainInit ==
    /\ Idle
    /\ weather_codes = WEATHER_CODES
    /\ at = "start"
    /\ argv \in Argvs
    /\ transport = ""
    /\ levels \in [Loggers -> LevelChoices]
    /\ logged = <<>>
    /\ runs = <<>>
    /\ NoRetry

\* Mutant: `"http" in sys.argv or "--http" in sys.argv`: any argument
\* selects the HTTP transport.
SelectTransport_any_argument ==
    /\ at = "start"
    /\ at' = "selected"
    /\ IF \E n \in 2..Len(argv) : argv[n] \in {"http", "--http"}
       THEN /\ transport' = "http"
            /\ logged' = Append(logged, "Starting Chuk MCP Open-Meteo Server in HTTP mode")
       ELSE /\ transport' = "stdio"
            /\ UNCHANGED logged
    /\ UNCHANGED <<argv, levels, runs, toolvars, weather_codes, retryvars>>

\* transport = "stdio", then `if len(sys.argv) > 1 and sys.argv[1] in
\* ["http", "--http"]`; sys.argv[1] is the second entry of argv here.
SelectTransport ==
    /\ at = "start"
    /\ at' = "selected"
    /\ IF Len(argv) > 1 /\ argv[2] \in {"http", "--http"}
       THEN /\ transport' = "http"
            /\ logged' = Append(logged, "Starting Chuk MCP Open-Meteo Server in HTTP mode")
       ELSE /\ transport' = "stdio"
            /\ UNCHANGED logged
    /\ UNCHANGED <<argv, levels, runs, toolvars, weather_codes, retryvars>>

\* Mutant: the loggers are silenced whatever the transport.
SuppressLogging_always ==
    /\ at = "selected"
    /\ at' = "configured"
    /\ levels' = [l \in DOMAIN levels |-> IF l \in Loggers THEN ERROR ELSE levels[l]]
    /\ UNCHANGED <<argv, transport, logged, runs, toolvars, weather_codes, retryvars>>

\* `if transport == "stdio":` the four setLevel(logging.ERROR) calls.
SuppressLogging ==
    /\ at = "selected"
    /\ at' = "configured"
    /\ levels' = IF transport = "stdio"
                 THEN [l \in DOMAIN levels |-> IF l \in Loggers THEN ERROR ELSE levels[l]]
                 ELSE levels
    /\ UNCHANGED <<argv, transport, logged, runs, toolvars, weather_codes, retryvars>>

\* run(transport=transport)
Run ==
    /\ at = "configured"
    /\ at' = "running"
    /\ runs' = Append(runs, transport)
    /\ UNCHANGED <<argv, transport, levels, logged, toolvars, weather_codes, retryvars>>

\* run() returns and main() with it.
Exit ==
    /\ at = "running"
    /\ at' = "exited"
    /\ UNCHANGED <<argv, transport, levels, logged, runs, toolvars, weather_codes, retryvars>>

MainNext ==
    \/ SelectTransport
    \/ SuppressLogging
    \/ Run
    \/ Exit

MainSpec == MainInit /\ [][MainNext]_vars

(***************************************************************************)
(* The retry helper of the tests (tests/conftest.py).  Under RetrySpec a   *)
(* test calls _retry(coro_func, max_retries, initial_delay); each call of  *)
(* coro_func returns or raises, as a tool called over the network may.     *)
(***************************************************************************)
MaxRetries == 3
MaxDelay == 2
RetryCounts == 0..MaxRetries
InitialDelays == 0..MaxDelay

\* The names of the exception types a call may raise, letter by letter.
TypeName ==
    [ConnectError |-> <<"C","o","n","n","e","c","t","E","r","r","o","r">>,
     ReadTimeout |-> <<"R","e","a","d","T","i","m","e","o","u","t">>,
     NetworkError |-> <<"N","e","t","w","o","r","k","E","r","r","o","r">>,
     SSLError |-> <<"S","S","L","E","r","r","o","r">>,
     HTTPStatusError |-> <<"H","T","T","P","S","t","a","t","u","s","E","r","r","o","r">>,
     ValidationError |-> <<"V","a","l","i","d","a","t","i","o","n","E","r","r","o","r">>,
     CancelledError |-> <<"C","a","n","c","e","l","l","e","d","E","r","r","o","r">>,
     Exception |-> <<"E","x","c","e","p","t","i","o","n">>]

\* What a call of the wrapped function may end with: a value, or an
\* exception of some type, derived from Exception or (CancelledError) from
\* BaseException only.
Returns(v) == [kind |-> "return", name |-> <<>>, base |-> "", value |-> v]
Raises(name, base, v) == [kind |-> "raise", name |-> name, base |-> base, value |-> v]
Outcomes(n) ==
    {Returns(n)}
        \cup {Raises(TypeName[name], "Exception", n) :
                  name \in {"ConnectError", "ReadTimeout", "NetworkError", "SSLError",
                            "HTTPStatusError", "ValidationError"}}
        \cup {Raises(TypeName.CancelledError, "BaseException", n)}

\* str.lower() on the letters of a type name.
UpperCase == <<"A","B","C","D","E","F","G","H","I","J","K","L","M",
               "N","O","P","Q","R","S","T","U","V","W","X","Y","Z">>
LowerCase == <<"a","b","c","d","e","f","g","h","i","j","k","l","m",
               "n","o","p","q","r","s","t","u","v","w","x","y","z">>
Lower(name) ==
    [i \in 1..Len(name) |->
        IF \E j \in 1..Len(UpperCase) : UpperCase[j] = name[i]
        THEN LowerCase[CHOOSE j \in 1..Len(UpperCase) : UpperCase[j] = name[i]]
        ELSE name[i]]

\* `keyword in error_str`
Contains(str, keyword) ==
    \E i \in 1..(Len(str) - Len(keyword) + 1) :
        SubSeq(str, i, i + Len(keyword) - 1) = keyword

Keywords ==
    {<<"c","o","n","n","e","c","t">>, <<"t","i","m","e","o","u","t">>,
     <<"n","e","t","w","o","r","k">>, <<"t","l","s">>, <<"s","s","l">>}

\* Mutant: every exception counts as a network error.
IsNetworkError_any_error(e) == e.kind = "raise"

\* error_str = str(type(e).__name__).lower(); any(keyword in error_str ...)
IsNetworkError(e) == \E keyword \in Keywords : Contains(Lower(e.name), keyword)

\* A test calls the helper.
RetryEnter ==
    /\ rpc = "idle"
    /\ \E m \in RetryCounts, d \in InitialDelays :
         /\ max_retries' = m
         /\ initial_delay' = d
    /\ rpc' = "loop"
    /\ attempt' = 0
    /\ UNCHANGED <<outcomes, sleeps, retried>>
    /\ UNCHANGED <<toolvars, weather_codes, mainvars>>

\* One turn of `for attempt in range(max_retries)`: the wrapped function is
\* awaited; its value is returned; an exception that `except Exception`
\* catches, that is network-related and is not that of the last turn is
\* followed by the sleep; any other exception leaves the helper.
RetryAttempt ==
    /\ rpc = "loop"
    /\ attempt < max_retries
    /\ \E o \in Outcomes(attempt) :
         /\ outcomes' = Append(outcomes, o)
         /\ IF o.kind = "return"
            THEN /\ rpc' = "returned"
                 /\ retried' = o
                 /\ UNCHANGED sleeps
            ELSE IF o.base = "Exception" /\ IsNetworkError(o) /\ attempt < max_retries - 1
            THEN /\ rpc' = "sleeping"
                 /\ sleeps' = Append(sleeps, initial_delay * (2 ^ attempt))
                 /\ UNCHANGED retried
            ELSE /\ rpc' = "raised"
                 /\ retried' = o
                 /\ UNCHANGED sleeps
    /\ UNCHANGED <<max_retries, initial_delay, attempt>>
    /\ UNCHANGED <<toolvars, weather_codes, mainvars>>

\* asyncio.sleep(delay) returns; `continue`.
RetryWake ==
    /\ rpc = "sleeping"
    /\ rpc' = "loop"
    /\ attempt' = attempt + 1
    /\ UNCHANGED <<max_retries, initial_delay, outcomes, sleeps, retried>>
    /\ UNCHANGED <<toolvars, weather_codes, mainvars>>

\* The loop ends without a turn having left the helper:
\* raise Exception(f"Failed after {max_retries} attempts")
RetryExhausted ==
    /\ rpc = "loop"
    /\ attempt >= max_retries
    /\ rpc' = "raised"
    /\ retried' = Raises(TypeName.Exception, "Exception", max_retries)
    /\ UNCHANGED <<max_retries, initial_delay, attempt, outcomes, sleeps>>
    /\ UNCHANGED <<toolvars, weather_codes, mainvars>>

RetryNext ==
    \/ RetryEnter
    \/ RetryAttempt
    \/ RetryWake
    \/ RetryExhausted

RetrySpec == Init /\ [][RetryNext]_vars

(***************************************************************************)
(* Properties.                                                             *)
(***************************************************************************)
\* The invocation of tool t has ended.
Done(t) == pc = "done" /\ tool = t
Returned == pc = "done" /\ result # Unset
Failed(type) == pc = "done" /\ error.type = type /\ result = Unset
Field(x, f) == Val(x).fields[f]

\* The codes the documentation of interpret_weather_code lists.
DocumentedCodes ==
    {0, 1, 2, 3, 45, 48, 51, 53, 55, 56, 57, 61, 63, 65, 66, 67, 71, 73, 75, 77,
     80, 81, 82, 85, 86, 95, 96, 99}

\* C1: interpret_weather_code is total: for every integer code it returns a
\* WeatherCodeInterpretation and never raises; for a code that is no key of
\* the table the severity is "unknown" and the description says the code is
\* unknown, naming it.
C1_Total ==
    Done("interpret_weather_code") =>
        LET code == Val(args.weather_code)
        IN  /\ error = NoError
            /\ Kind(result) = "model"
            /\ Val(result).name = "WeatherCodeInterpretation"
            /\ code \notin DocumentedCodes =>
                 /\ Field(result, "severity") = PyStr("unknown")
                 /\ Field(result, "description") =
                      PyStr("Unknown weather code: " \o ToString(code))

C1_Witness ==
    /\ Done("interpret_weather_code")
    /\ Val(args.weather_code) < 0
    /\ Field(result, "severity") = PyStr("unknown")
    /\ Field(result, "description") = PyStr("Unknown weather code: -1")

\* C2: for every documented code the result is exactly the table entry's
\* description and severity with the code echoed; 61 is "Slight rain" of
\* severity "rain", and 200 has severity "unknown".
C2_TableEntries ==
    Done("interpret_weather_code") =>
        LET code == Val(args.weather_code)
        IN  /\ code \in DocumentedCodes =>
                 /\ code \in DOMAIN WEATHER_CODES
                 /\ Returned
                 /\ Field(result, "code") = PyInt(code)
                 /\ Field(result, "description") = PyStr(WEATHER_CODES[code].description)
                 /\ Field(result, "severity") = PyStr(WEATHER_CODES[code].severity)
            /\ code = 61 =>
                 /\ Field(result, "description") = PyStr("Slight rain")
                 /\ Field(result, "severity") = PyStr("rain")
            /\ code = 200 => Field(result, "severity") = PyStr("unknown")

C2_Witness ==
    /\ Done("interpret_weather_code")
    /\ Val(args.weather_code) = 61
    /\ Field(result, "description") = PyStr("Slight rain")

\* C3: in each of the five network tools a response with a non-success
\* status ends the invocation with an error and never with a record,
\* whatever the body holds.
C3_StatusError ==
    (tool \in NetworkTools /\ response # NoResponse /\ ~(response.status \in 200..299)) =>
        /\ result = Unset
        /\ pc \in {"received", "done"}
        /\ pc = "done" => error.type = "HTTPStatusError"

\* A non-success answer whose body would decode has ended in the error.
C3_Witness ==
    /\ tool = "geocode_location"
    /\ Failed("HTTPStatusError")
    /\ response.status = 404
    /\ response.body = GeocodingBody
    /\ Construct("GeocodingResponse", response.body).ok

\* C4 as stated: every tool invocation, whatever its outcome, has issued
\* exactly one request.
C4_OneRequestEveryTool == pc = "done" => nreq = 1

\* C4, amended: an invocation of a network tool issues exactly one request,
\* whatever its outcome, and never a second one; interpret_weather_code
\* issues none.
C4_OneRequest ==
    /\ nreq <= 1
    /\ (tool \in NetworkTools /\ pc \notin {"idle", "built"}) => nreq = 1
    /\ tool = "interpret_weather_code" => nreq = 0
    /\ request # NoRequest => (pc \in {"awaiting", "cancelling"} /\ nreq = 1)

C4_Witness ==
    /\ tool = "get_air_quality"
    /\ Failed("HTTPStatusError")
    /\ response.status = 500
    /\ nreq = 1

\* The tools that substitute a default hourly list.
DefaultHourly(t) ==
    CASE t = "get_air_quality" ->
           "pm10,pm2_5,carbon_monoxide,nitrogen_dioxide,sulphur_dioxide,ozone,us_aqi,european_aqi"
      [] t = "get_marine_forecast" ->
           "wave_height,wave_direction,wave_period,wind_wave_height,swell_wave_height,sea_level_height_msl"

InFlight(t) == pc = "awaiting" /\ tool = t /\ request # NoRequest

\* C5 as stated: without an hourly list the request carries the default;
\* with any hourly list supplied it carries that list and not the default.
C5_SuppliedListSent ==
    \A t \in {"get_air_quality", "get_marine_forecast"} :
        InFlight(t) =>
            /\ "hourly" \in DOMAIN request.params
            /\ args.hourly = None => request.params.hourly = PyStr(DefaultHourly(t))
            /\ args.hourly # None => request.params.hourly = args.hourly

\* C5, amended: without an hourly list, or with the empty string, the
\* request carries the default; with a non-empty list it carries that list.
C5_DefaultHourly ==
    \A t \in {"get_air_quality", "get_marine_forecast"} :
        InFlight(t) =>
            /\ "hourly" \in DOMAIN request.params
            /\ args.hourly \in {None, PyStr("")} =>
                 request.params.hourly = PyStr(DefaultHourly(t))
            /\ args.hourly \notin {None, PyStr("")} =>
                 request.params.hourly = args.hourly

C5_Witness ==
    /\ InFlight("get_marine_forecast")
    /\ args.hourly = None
    /\ request.params.hourly =
         PyStr("wave_height,wave_direction,wave_period,wind_wave_height,swell_wave_height,sea_level_height_msl")

(***************************************************************************)
(* Decoding: what the record returned holds of the body answered.          *)
(***************************************************************************)
\* The upstream answered tool t with a success status and a JSON object,
\* and the invocation has ended.
Answered(t) ==
    /\ Done(t)
    /\ response.status \in 200..299
    /\ Kind(response.body) = "obj"

EnvelopeTools ==
    {"get_weather_forecast", "get_historical_weather", "get_air_quality",
     "get_marine_forecast"}

\* The series blocks the envelope of a tool declares, and their classes.
DeclaredBlocks(t) == IF t = "get_air_quality" THEN {"hourly"} ELSE {"hourly", "daily"}
BlockClass(t, blk) ==
    CASE t \in {"get_weather_forecast", "get_historical_weather"} ->
           IF blk = "hourly" THEN "HourlyWeather" ELSE "DailyWeather"
      [] t = "get_air_quality" -> "HourlyAirQuality"
      [] t = "get_marine_forecast" ->
           IF blk = "hourly" THEN "HourlyMarine" ELSE "DailyMarine"
SeriesClasses ==
    {"HourlyWeather", "DailyWeather", "HourlyAirQuality", "HourlyMarine", "DailyMarine"}

Front(p) == SubSeq(p, 1, Len(p) - 1)
Last(p) == p[Len(p)]

\* The paths of a body that lead to a key of an object.
FieldPaths(b) == {p \in Paths(b) \ {<<>>} : Kind(Get(b, Front(p))) = "obj"}

\* The class or scalar type that decodes the value at path, starting from class.
RECURSIVE ClassAt(_, _)
ClassAt(class, path) ==
    IF path = <<>> THEN class
    ELSE IF class \in ModelNames /\ Head(path) \in DOMAIN Schema(class)
    THEN LET d == Schema(class)[Head(path)]
         IN  ClassAt(IF d.kind = "list" THEN d.elem ELSE d.kind, Tail(path))
    ELSE ClassAt(class, Tail(path))

\* The part of a decoded record at path.
RECURSIVE Decoded(_, _)
Decoded(x, path) ==
    IF path = <<>> THEN x
    ELSE IF Kind(x) = "model" THEN Decoded(Val(x).fields[Head(path)], Tail(path))
    ELSE Decoded(Val(x)[EntryAt(x, Head(path))], Tail(path))

\* C6: decoding fails with a validation error whenever latitude or
\* longitude is missing from a forecast, historical, air-quality or marine
\* envelope, or time is missing from an hourly or daily block that is
\* present in the body; the error names the missing field.
C6_RequiredMissing ==
    \A t \in EnvelopeTools :
        Answered(t) =>
            LET b == Val(response.body)
            IN  /\ \A f \in {"latitude", "longitude"} :
                     f \notin DOMAIN b =>
                         (Failed("ValidationError") /\ <<f>> \in error.locs)
                /\ \A blk \in DeclaredBlocks(t) :
                     (/\ blk \in DOMAIN b
                      /\ Kind(b[blk]) = "obj"
                      /\ "time" \notin DOMAIN Val(b[blk])) =>
                         (Failed("ValidationError") /\ <<blk, "time">> \in error.locs)

C6_Witness ==
    /\ Answered("get_marine_forecast")
    /\ response.body = Del(MarineBody, <<"daily", "time">>)
    /\ Failed("ValidationError")
    /\ error.locs = {<<"daily", "time">>}

\* C7 as stated: in every response shape every field other than latitude,
\* longitude and time is optional: a body that lacks it decodes, and the
\* field decodes to None.
C7_AllOthersOptional ==
    \A t \in NetworkTools :
        Answered(t) =>
            \A p \in FieldPaths(Base(t)) :
                (/\ response.body = Del(Base(t), p)
                 /\ Last(p) \notin {"latitude", "longitude", "time"}) =>
                    (Returned /\ Decoded(result, p) = None)

\* The fields the amended claim excepts: latitude and longitude, time, the
\* name of a geocoding result and every field of the current conditions.
Excepted(class, f) ==
    \/ f \in {"latitude", "longitude", "time"}
    \/ class = "GeocodingResult" /\ f = "name"
    \/ class = "CurrentWeather"

\* C7, amended: every field other than latitude, longitude, the time of a
\* series block, the name of a geocoding result and the fields of a present
\* current_weather record is optional: a body that lacks it decodes, and
\* the field decodes to None.
C7_Optional ==
    \A t \in NetworkTools :
        Answered(t) =>
            /\ \A p \in FieldPaths(Base(t)) :
                 (/\ response.body = Del(Base(t), p)
                  /\ ~Excepted(ClassAt(ToolModel(t), Front(p)), Last(p))) =>
                     (Returned /\ Decoded(result, p) = None)
            /\ (t \in EnvelopeTools /\ response.body = Minimal(ToolModel(t), Base(t))) =>
                 /\ Returned
                 /\ \A f \in DOMAIN Schema(ToolModel(t)) \ {"latitude", "longitude"} :
                      Field(result, f) = None

C7_Witness ==
    /\ Answered("geocode_location")
    /\ response.body = Del(GeocodingBody, <<"results", "1", "population">>)
    /\ Returned
    /\ Decoded(result, <<"results", "1", "population">>) = None

CurrentWeatherFields == {"temperature", "windspeed", "winddirection", "weathercode", "time"}

\* C8: current_weather is optional in a forecast body, but if it is present
\* and lacks one of its five fields, decoding the whole forecast fails; if
\* it is absent, decoding succeeds with current_weather None.
C8_CurrentWeather ==
    Answered("get_weather_forecast") =>
        LET b == Val(response.body)
        IN  /\ ("current_weather" \in DOMAIN b /\ Kind(b.current_weather) = "obj") =>
                 \A f \in CurrentWeatherFields :
                     f \notin DOMAIN Val(b.current_weather) =>
                         /\ Failed("ValidationError")
                         /\ <<"current_weather", f>> \in error.locs
            /\ "current_weather" \notin DOMAIN b =>
                 /\ Returned => Field(result, "current_weather") = None
                 /\ response.body \in {Del(ForecastBody, <<"current_weather">>),
                                       Minimal("WeatherForecast", ForecastBody)} => Returned

C8_Witness ==
    /\ Answered("get_weather_forecast")
    /\ response.body = Del(ForecastBody, <<"current_weather", "time">>)
    /\ Failed("ValidationError")
    /\ error.locs = {<<"current_weather", "time">>}

\* The keys of the object at path p of the body that class c does not declare.
Undeclared(c, x) == (DOMAIN Val(x)) \ DOMAIN Schema(c)

\* C9: in every hourly and daily block a sequence whose name the schema
\* does not declare is not rejected, is kept in the decoded record with its
\* raw values, and is present when the record is serialized again.
C9_ExtraSequences ==
    \A t \in EnvelopeTools : \A blk \in DeclaredBlocks(t) :
        (Answered(t) /\ blk \in DOMAIN Val(response.body)
                     /\ Kind(Val(response.body)[blk]) = "obj") =>
            LET raw == Val(response.body)[blk]
                extras == Undeclared(BlockClass(t, blk), raw)
            IN  /\ response.body \in {Put(Base(t), <<blk, NewKey>>, val) : val \in Additions}
                     => (Returned /\ extras = {NewKey})
                /\ Returned =>
                     \A e \in extras :
                         /\ e \in DOMAIN Val(Field(result, blk)).extra
                         /\ Val(Field(result, blk)).extra[e] = Val(raw)[e]
                         /\ e \in DOMAIN Val(Val(model_dump(result))[blk])
                         /\ Val(Val(model_dump(result))[blk])[e] = Val(raw)[e]

C9_Witness ==
    /\ Answered("get_historical_weather")
    /\ response.body = Put(HistoricalBody, <<"daily", NewKey>>, PyList(<<PyFloat(5), None>>))
    /\ Returned
    /\ Val(Field(result, "daily")).extra[NewKey] = PyList(<<PyFloat(5), None>>)

\* C10 as stated: in every record type of the schema, the outer envelopes,
\* the geocoding result and the current conditions included, a field the
\* schema does not declare is kept in the decoded record.
C10_AllRetained ==
    \A t \in NetworkTools :
        (Answered(t) /\ Returned) =>
            \A p \in ObjPaths(response.body) :
                \A e \in Undeclared(ClassAt(ToolModel(t), p), Get(response.body, p)) :
                    e \in DOMAIN Val(Decoded(result, p)).extra

\* C10, amended: every response shape permits unknown fields, in that an
\* undeclared field never makes decoding fail; the field is kept, with its
\* raw value, in the hourly and daily series blocks only, and is discarded
\* in the outer envelopes, the geocoding response and result and the
\* current conditions.
C10_ExtraFields ==
    \A t \in NetworkTools :
        Answered(t) =>
            /\ response.body \in {Put(Base(t), p \o <<NewKey>>, val) :
                                    p \in ObjPaths(Base(t)), val \in Additions} => Returned
            /\ Returned =>
                 \A p \in ObjPaths(response.body) :
                     LET c == ClassAt(ToolModel(t), p)
                         raw == Get(response.body, p)
                         rec == Decoded(result, p)
                     IN  IF c \in SeriesClasses
                         THEN \A e \in Undeclared(c, raw) :
                                  /\ e \in DOMAIN Val(rec).extra
                                  /\ Val(rec).extra[e] = Val(raw)[e]
                         ELSE /\ DOMAIN Val(rec).extra = {}
                              /\ \A e \in Undeclared(c, raw) :
                                     e \notin DOMAIN Val(model_dump(rec))

C10_Witness ==
    /\ Answered("get_weather_forecast")
    /\ response.body = Put(ForecastBody, <<NewKey>>, PyInt(3600))
    /\ Returned
    /\ NewKey \notin DOMAIN Val(result).extra
    /\ NewKey \notin DOMAIN Val(model_dump(result))

(***************************************************************************)
(* Sequences: null entries, lengths and order.                             *)
(***************************************************************************)
\* The blocks whose readings are declared list[Optional[...]].
NullableBlocks ==
    {<<"get_air_quality", "hourly">>, <<"get_marine_forecast", "hourly">>,
     <<"get_marine_forecast", "daily">>}

\* C11: for every declared reading of the air-quality hourly block and of
\* the marine hourly and daily blocks, a body whose sequence holds null at
\* some positions decodes, with null at exactly those positions of the
\* decoded sequence and the other entries unchanged.
C11_NullEntries ==
    \A tb \in NullableBlocks :
        Answered(tb[1]) =>
            \A f \in DOMAIN Schema(BlockClass(tb[1], tb[2])) \ {"time"} :
                LET raw == Get(Base(tb[1]), <<tb[2], f>>)
                IN  \A S \in SUBSET (1..Len(Val(raw))) :
                        response.body = Put(Base(tb[1]), <<tb[2], f>>, Nulled(raw, S)) =>
                            /\ Returned
                            /\ LET dec == Decoded(result, <<tb[2], f>>)
                               IN  /\ Kind(dec) = "arr"
                                   /\ Len(Val(dec)) = Len(Val(raw))
                                   /\ \A i \in 1..Len(Val(raw)) :
                                        /\ i \in S => Val(dec)[i] = None
                                        /\ i \notin S => Val(dec)[i] = Val(raw)[i]

\* Every entry of a marine daily reading is null, and the block decoded.
C11_Witness ==
    /\ Answered("get_marine_forecast")
    /\ response.body =
         Put(MarineBody, <<"daily", "wave_height_max">>,
             PyList([i \in 1..SeqLen |-> None]))
    /\ Returned
    /\ Decoded(result, <<"daily", "wave_height_max">>) = PyList([i \in 1..SeqLen |-> None])

\* C12: in every decoded hourly or daily block, every populated sequence
\* has the length of the block's time sequence.
C12_EqualLengths ==
    \A t \in EnvelopeTools : \A blk \in DeclaredBlocks(t) :
        (Answered(t) /\ Returned /\ Field(result, blk) # None) =>
            LET series == Field(result, blk)
            IN  \A f \in DOMAIN Val(series).fields :
                    Field(series, f) # None =>
                        Len(Val(Field(series, f))) = Len(Val(Field(series, "time")))

\* C13: geocode_location returns the entries of the body's results list as
\* given: as many as the body holds, whatever count was asked for, each at
\* its position and with the values of its fields.
C13_ResultsAsGiven ==
    (/\ Answered("geocode_location")
     /\ Returned
     /\ Has(response.body, "results")
     /\ Kind(Val(response.body).results) = "arr") =>
        LET raw == Val(Val(response.body).results)
            dec == Field(result, "results")
        IN  /\ Kind(dec) = "arr"
            /\ Len(Val(dec)) = Len(raw)
            /\ \A i \in 1..Len(raw) :
                 \A f \in (DOMAIN Val(raw[i])) \cap (DOMAIN GeocodingResult) :
                     Kind(Val(raw[i])[f]) = GeocodingResult[f].kind =>
                         Field(Val(dec)[i], f) = Val(raw[i])[f]

\* A call with count 1 is answered with the French and the Texan Paris and
\* returns both, the French one first.
C13_Witness ==
    /\ Answered("geocode_location")
    /\ Returned
    /\ args.count = PyInt(1)
    /\ response.body = GeocodingBody
    /\ Len(Val(Field(result, "results"))) = 2
    /\ Field(Val(Field(result, "results"))[1], "country_code") = PyStr("FR")
    /\ Field(Val(Field(result, "results"))[2], "country_code") = PyStr("US")

(***************************************************************************)
(* Decode failures.                                                        *)
(***************************************************************************)
\* The paths of a well-formed body that lead to a number.
NumberPaths(t) ==
    {p \in Paths(Base(t)) : /\ Kind(Get(Base(t), p)) \in {"int", "float"}
                            /\ ClassAt(ToolModel(t), p) \in {"int", "float"}}

\* C14: a decode failure ends the invocation with a validation error and
\* with no record, never with a record that holds the valid part: an
\* invocation never ends with both a record and an error, a geocoding body
\* one of whose entries lacks its name returns nothing, and so does every
\* body one of whose numbers is a string that is no number.
C14_NoPartialResult ==
    /\ (pc = "done" /\ tool \in NetworkTools) => ((result = Unset) # (error = NoError))
    /\ \A t \in NetworkTools :
         Answered(t) =>
             /\ \A p \in NumberPaths(t) :
                  response.body = Put(Base(t), p, PyStr("abc")) =>
                      (Failed("ValidationError") /\ p \in error.locs)
             /\ \A p \in FieldPaths(Base(t)) :
                  (/\ response.body = Del(Base(t), p)
                   /\ ClassAt(ToolModel(t), Front(p)) = "GeocodingResult"
                   /\ Last(p) = "name") =>
                      (Failed("ValidationError") /\ p \in error.locs)

\* The second of two geocoding entries lacks its name; nothing is returned.
C14_Witness ==
    /\ Answered("geocode_location")
    /\ response.body = Del(GeocodingBody, <<"results", "1", "name">>)
    /\ Failed("ValidationError")
    /\ error.locs = {<<"results", "1", "name">>}
    /\ result = Unset

(***************************************************************************)
(* Round trip: the arguments in the request, the body in the record.       *)
(***************************************************************************)
\* The path leads through declared fields only, from class and value x on.
RECURSIVE DeclaredIn(_, _, _)
DeclaredIn(class, x, path) ==
    IF path = <<>> THEN TRUE
    ELSE IF Kind(x) = "arr"
    THEN DeclaredIn(class, Val(x)[EntryAt(x, Head(path))], Tail(path))
    ELSE /\ Kind(x) = "obj"
         /\ class \in ModelNames
         /\ Head(path) \in DOMAIN Schema(class)
         /\ LET d == Schema(class)[Head(path)]
            IN  DeclaredIn(IF d.kind = "list" THEN d.elem ELSE d.kind,
                           Val(x)[Head(path)], Tail(path))

\* The paths of body b that lead to a scalar of a declared field.
DeclaredLeaves(t, b) ==
    {p \in Paths(b) : /\ Kind(Get(b, p)) \in {"null", "bool", "int", "float", "str"}
                      /\ DeclaredIn(ToolModel(t), b, p)}

\* C15 as stated: every argument passed appears in the query parameters
\* under its own name with the same value, and the record carries, for
\* every declared field the body contains, the value of the body.
C15_RoundTrip ==
    \A t \in NetworkTools :
        /\ InFlight(t) =>
              \A k \in DOMAIN args :
                  args[k] # None =>
                      (k \in DOMAIN request.params /\ request.params[k] = args[k])
        /\ (Answered(t) /\ Returned) =>
              \A p \in DeclaredLeaves(t, response.body) :
                  LET raw == Get(response.body, p)
                      dec == Decoded(result, p)
                  IN  \/ dec = raw
                      \/ Kind(raw) = "int" /\ dec = PyFloat(2 * Val(raw))

SwitchedArguments == {"current_weather", "hourly", "daily"}

\* C15, amended: every argument other than current_weather, hourly and
\* daily appears in the query parameters under its own name with the same
\* value; current_weather appears as the string "true" when it is true and
\* not at all when it is false; hourly and daily appear with their value
\* when they are a non-empty string, and otherwise are absent or, in
\* get_air_quality and get_marine_forecast, hourly is the default list; the
\* request has no other parameter.  The record carries, for every declared
\* field the body contains, the value of the body when that value has the
\* declared type or is an int given for a float, and otherwise the number
\* the value converts to.
C15_Literal ==
    \A t \in NetworkTools :
        /\ InFlight(t) =>
              /\ DOMAIN request.params \subseteq DOMAIN args
              /\ \A k \in (DOMAIN args) \ SwitchedArguments :
                   (k \in DOMAIN request.params /\ request.params[k] = args[k])
              /\ "current_weather" \in DOMAIN args =>
                   IF args.current_weather = PyBool(TRUE)
                   THEN /\ "current_weather" \in DOMAIN request.params
                        /\ request.params.current_weather = PyStr("true")
                   ELSE "current_weather" \notin DOMAIN request.params
              /\ \A k \in (DOMAIN args) \cap {"hourly", "daily"} :
                   IF args[k] \notin {None, PyStr("")}
                   THEN k \in DOMAIN request.params /\ request.params[k] = args[k]
                   ELSE IF k = "hourly" /\ t \in {"get_air_quality", "get_marine_forecast"}
                   THEN /\ k \in DOMAIN request.params
                        /\ request.params[k] = PyStr(DefaultHourly(t))
                   ELSE k \notin DOMAIN request.params
        /\ (Answered(t) /\ Returned) =>
              \A p \in DeclaredLeaves(t, response.body) :
                  LET raw == Get(response.body, p)
                      dec == Decoded(result, p)
                      kind == ClassAt(ToolModel(t), p)
                  IN  /\ (Kind(raw) \in {kind, "null"}) => dec = raw
                      /\ (Kind(raw) = "int" /\ kind = "float") => dec = PyFloat(2 * Val(raw))
                      /\ Kind(dec) \in {kind, "null"}

\* A forecast asked for the timezone Europe/London: the parameter went out
\* as given and the record holds the body's coordinates and timezone.
C15_Witness ==
    /\ Answered("get_weather_forecast")
    /\ Returned
    /\ response.body = ForecastBody
    /\ args.timezone = PyStr("Europe/London")
    /\ params.timezone = PyStr("Europe/London")
    /\ Field(result, "latitude") = PyFloat(103)
    /\ Field(result, "longitude") = PyFloat(-1)
    /\ Field(result, "timezone") = PyStr("Europe/London")

(***************************************************************************)
(* Concurrent invocations.                                                 *)
(***************************************************************************)
\* All that invocation i holds.
Local(i) ==
    <<pc[i], tool[i], args[i], params[i], client[i], request[i], nreq[i],
      response[i], data[i], result[i], error[i]>>

\* A step changes what at most one invocation holds.
OneAtATime ==
    \A i \in Invocations : \A j \in Invocations \ {i} :
        ~(Local(i)' # Local(i) /\ Local(j)' # Local(j))

\* Two invocations of one tool with the same arguments have sent the same
\* parameters, and two that got the same response have the same outcome.
OwnInputsOnly ==
    \A i \in Invocations : \A j \in Invocations :
        /\ (/\ tool[i] = tool[j] /\ args[i] = args[j]
            /\ request[i] # NoRequest /\ request[j] # NoRequest) =>
               request[i] = request[j]
        /\ (/\ tool[i] = tool[j] /\ pc[i] = "done" /\ pc[j] = "done"
            /\ response[i] # NoResponse /\ response[i] = response[j]) =>
               (result[i] = result[j] /\ error[i] = error[j])

\* What the request of invocation i carries of its own arguments.
OwnRequest ==
    \A i \in Invocations :
        request[i] # NoRequest =>
            \A k \in (DOMAIN args[i]) \ SwitchedArguments :
                (k \in DOMAIN request[i].params /\ request[i].params[k] = args[i][k])

\* C16: under every interleaving of the invocations in flight, a step of
\* one invocation changes nothing another holds, the parameters an
\* invocation sends are those of its own arguments, and its outcome is
\* that of its own tool and the response to its own request.
C16_NoInteraction == [][OneAtATime /\ OwnInputsOnly' /\ OwnRequest']_vars

\* Two calls of get_weather_forecast are in flight at once, each with its
\* own timezone in its request.
C16_Witness ==
    /\ DOMAIN pc = Invocations
    /\ pc[1] = "awaiting" /\ pc[2] = "awaiting"
    /\ tool[1] = "get_weather_forecast" /\ tool[2] = "get_weather_forecast"
    /\ request[1].params.timezone = PyStr("auto")
    /\ request[2].params.timezone = PyStr("Europe/London")

(***************************************************************************)
(* The module's constants, and cancellation.                               *)
(***************************************************************************)
\* C17: after any sequence of invocations, with any arguments and any
\* outcomes, the WEATHER_CODES dict holds what it held when the module was
\* loaded, and a call without an hourly list still sends the default list
\* of its tool.
C17_ReadOnly ==
    /\ weather_codes = WEATHER_CODES
    /\ InFlight("get_air_quality") /\ args.hourly = None =>
          request.params.hourly = PyStr(AIR_QUALITY_DEFAULT_HOURLY)
    /\ InFlight("get_marine_forecast") /\ args.hourly = None =>
          request.params.hourly = PyStr(MARINE_DEFAULT_HOURLY)

\* interpret_weather_code has answered for a code that is no key of the
\* table, and the table has no entry for it afterwards.
C17_Witness ==
    /\ Done("interpret_weather_code")
    /\ args.weather_code = PyInt(200)
    /\ Field(result, "severity") = PyStr("unknown")
    /\ 200 \notin DOMAIN weather_codes
    /\ weather_codes = WEATHER_CODES

\* C18: an invocation cancelled while its request is in flight takes one
\* step more: the request is aborted and the client closed, the invocation
\* ends with CancelledError and no record, and it has issued one request
\* and issues no other.
C18_Cancelled ==
    [][pc = "cancelling" =>
          /\ pc' = "done"
          /\ error'.type = "CancelledError"
          /\ result' = Unset
          /\ request' = NoRequest
          /\ client' = "closed"
          /\ nreq = 1 /\ nreq' = 1]_vars

\* A forecast was cancelled in flight and ended with the cancellation.
C18_Witness ==
    /\ Done("get_weather_forecast")
    /\ Failed("CancelledError")
    /\ nreq = 1
    /\ request = NoRequest
    /\ client = "closed"
    /\ response = NoResponse

(***************************************************************************)
(* main().                                                                 *)
(***************************************************************************)
\* C19: main() calls run once, with the transport "http" if and only if
\* the command line has a first argument and it is "http" or "--http", and
\* with "stdio" in every other case; the later arguments do not count.
C19_Transport ==
    /\ at \in {"start", "selected", "configured"} => runs = <<>>
    /\ at \in {"running", "exited"} =>
         /\ Len(runs) = 1
         /\ runs[1] \in {"http", "stdio"}
         /\ runs[1] = "http" <=> (Len(argv) >= 2 /\ argv[2] \in {"http", "--http"})

\* Started with `stdio http`, main() has called run for stdio.
C19_Witness ==
    /\ at = "running"
    /\ argv = <<Program, "stdio", "http">>
    /\ runs = <<"stdio">>

\* C20: when run is called for stdio, the four loggers are at ERROR
\* already; in http mode no step of main() changes the level of a logger.
C20_LogLevels ==
    [][/\ (runs' # runs /\ transport = "stdio") =>
            (\A l \in Loggers : levels[l] = ERROR /\ levels'[l] = ERROR)
       /\ (runs' # runs) => transport \in {"stdio", "http"}
       /\ (transport' = "http") => levels' = levels]_vars

\* Started without an argument and with httpx at DEBUG or any other level,
\* main() has called run for stdio with the four loggers at ERROR.
C20_Witness ==
    /\ at = "running"
    /\ argv = <<Program>>
    /\ runs = <<"stdio">>
    /\ \A l \in Loggers : levels[l] = ERROR

(***************************************************************************)
(* The severity bands.                                                     *)
(***************************************************************************)
\* The category the documentation of the tools gives to a code.
DocumentedSeverity(code) ==
    CASE code = 0 -> "clear"
      [] code \in 1..3 -> "cloudy"
      [] code \in {45, 48} -> "fog"
      [] code \in 51..57 -> "drizzle"
      [] code \in 61..67 -> "rain"
      [] code \in 71..77 -> "snow"
      [] code \in 80..82 -> "showers"
      [] code \in 95..99 -> "thunderstorm"
      [] OTHER -> ""

\* C22: for every code of the table that lies in a documented range, the
\* severity returned is the category of the range: 0 clear, 1-3 cloudy, 45
\* and 48 fog, 51-57 drizzle, 61-67 rain, 71-77 snow, 80-82 showers, 95-99
\* thunderstorm.
C22_SeverityRanges ==
    Done("interpret_weather_code") =>
        LET code == Val(args.weather_code)
        IN  (code \in DOMAIN WEATHER_CODES /\ DocumentedSeverity(code) # "") =>
                (Returned /\ Field(result, "severity") = PyStr(DocumentedSeverity(code)))

(***************************************************************************)
(* The request a tool assembles.                                           *)
(***************************************************************************)
AlwaysSent ==
    {"latitude", "longitude", "temperature_unit", "wind_speed_unit",
     "precipitation_unit", "timezone", "forecast_days"}

\* C23 as stated: the forecast request carries current_weather="true" if
\* and only if the flag is true, hourly if and only if an hourly list was
\* supplied, daily if and only if a daily list was supplied, and always the
\* coordinates, the three units, the timezone and forecast_days.
C23_WhenSupplied ==
    InFlight("get_weather_forecast") =>
        /\ AlwaysSent \subseteq DOMAIN request.params
        /\ "current_weather" \in DOMAIN request.params <=> args.current_weather = PyBool(TRUE)
        /\ "current_weather" \in DOMAIN request.params =>
              request.params.current_weather = PyStr("true")
        /\ "hourly" \in DOMAIN request.params <=> args.hourly # None
        /\ "daily" \in DOMAIN request.params <=> args.daily # None

\* C23, amended: as stated, but hourly and daily are carried if and only
\* if the list supplied is not empty; they then have the value supplied.
C23_WhenAskedFor ==
    InFlight("get_weather_forecast") =>
        /\ AlwaysSent \subseteq DOMAIN request.params
        /\ DOMAIN request.params \subseteq AlwaysSent \cup SwitchedArguments
        /\ "current_weather" \in DOMAIN request.params <=> args.current_weather = PyBool(TRUE)
        /\ "current_weather" \in DOMAIN request.params =>
              request.params.current_weather = PyStr("true")
        /\ \A k \in {"hourly", "daily"} :
              /\ k \in DOMAIN request.params <=> args[k] \notin {None, PyStr("")}
              /\ k \in DOMAIN request.params => request.params[k] = args[k]

\* A forecast without the current conditions and with an hourly list only.
C23_Witness ==
    /\ InFlight("get_weather_forecast")
    /\ args.current_weather = PyBool(FALSE)
    /\ args.hourly = PyStr("temperature_2m,precipitation")
    /\ args.daily = None
    /\ DOMAIN request.params = AlwaysSent \cup {"hourly"}
    /\ request.params.hourly = PyStr("temperature_2m,precipitation")

Unvalidated == {"forecast_days", "count", "start_date", "end_date"}

\* C24: whatever the forecast horizon, the count and the dates are, the
\* tool goes on to its request, the request carries the values supplied,
\* and an invocation that ends in an error has issued its request before.
C24_NoLocalValidation ==
    tool \in NetworkTools =>
        /\ pc = "built" => (error = NoError /\ ENABLED Send)
        /\ pc = "done" => nreq = 1
        /\ InFlight(tool) =>
              \A k \in Unvalidated \cap DOMAIN args :
                  (k \in DOMAIN request.params /\ request.params[k] = args[k])
        /\ error.type = "HTTPStatusError" =>
              (response # NoResponse /\ response.status \notin 200..299)

\* A historical request whose start is after its end is in flight.
C24_Witness ==
    /\ InFlight("get_historical_weather")
    /\ args.start_date = PyStr("2024-01-07")
    /\ args.end_date = PyStr("2024-01-01")
    /\ request.params.start_date = PyStr("2024-01-07")
    /\ request.params.end_date = PyStr("2024-01-01")

\* The address each data family is served from.
FamilyUrl ==
    [get_weather_forecast |-> "https://api.open-meteo.com/v1/forecast",
     geocode_location |-> "https://geocoding-api.open-meteo.com/v1/search",
     get_historical_weather |-> "https://archive-api.open-meteo.com/v1/archive",
     get_air_quality |-> "https://air-quality-api.open-meteo.com/v1/air-quality",
     get_marine_forecast |-> "https://marine-api.open-meteo.com/v1/marine"]

\* C25: every request of a network tool is a GET to the fixed URL of the
\* tool with a timeout of 30 seconds, whatever the arguments of the call;
\* the five URLs are distinct.
C25_FixedEndpoint ==
    /\ \A t, u \in NetworkTools : FamilyUrl[t] = FamilyUrl[u] => t = u
    /\ request # NoRequest =>
          /\ tool \in NetworkTools
          /\ request.method = "GET"
          /\ request.url = FamilyUrl[tool]
          /\ request.timeout = 30

\* A marine request with no argument left at its default is in flight.
C25_Witness ==
    /\ InFlight("get_marine_forecast")
    /\ args.latitude = PyFloat(-181)
    /\ args.timezone = PyStr("Europe/London")
    /\ args.hourly = PyStr("wave_height,swell_wave_period")
    /\ args.daily = PyStr("wave_height_max")
    /\ args.forecast_days = PyInt(17)
    /\ request.url = "https://marine-api.open-meteo.com/v1/marine"
    /\ request.method = "GET"
    /\ request.timeout = 30

\* The tools that take the variable list k.
TakesList(k) ==
    IF k = "hourly"
    THEN {"get_weather_forecast", "get_historical_weather", "get_air_quality",
          "get_marine_forecast"}
    ELSE {"get_weather_forecast", "get_historical_weather", "get_marine_forecast"}

\* C27: a variable list given as the empty string is treated as an omitted
\* one: the request is that of the call without the list; for hourly of
\* get_air_quality and get_marine_forecast it carries the default hourly
\* set, for every other list it lacks the parameter.
C27_EmptyAsOmitted ==
    \A k \in {"hourly", "daily"} : \A t \in TakesList(k) :
        (InFlight(t) /\ args[k] = PyStr("")) =>
            /\ request.params = BuildParams(t, [args EXCEPT ![k] = None])
            /\ IF k = "hourly" /\ t \in {"get_air_quality", "get_marine_forecast"}
               THEN request.params[k] = PyStr(DefaultHourly(t))
               ELSE k \notin DOMAIN request.params

\* A marine request with both lists empty: the default hourly set, no daily.
C27_Witness ==
    /\ InFlight("get_marine_forecast")
    /\ args.hourly = PyStr("")
    /\ args.daily = PyStr("")
    /\ request.params.hourly = PyStr(DefaultHourly("get_marine_forecast"))
    /\ "daily" \notin DOMAIN request.params

\* C28: in the hourly and daily blocks of a forecast or historical body, a
\* null entry in any declared sequence makes the decode fail with a
\* validation error that names the entry, and the same null in an
\* undeclared sequence of the block is accepted and kept.
C28_DeclaredOnly ==
    \A t \in {"get_weather_forecast", "get_historical_weather"} :
        Answered(t) =>
            \A blk \in {"hourly", "daily"} :
                /\ \A f \in DOMAIN Schema(BlockClass(t, blk)) :
                     LET raw == Get(Base(t), <<blk, f>>)
                     IN  \A S \in (SUBSET (1..Len(Val(raw)))) \ {{}} :
                             response.body = Put(Base(t), <<blk, f>>, Nulled(raw, S)) =>
                                 /\ Failed("ValidationError")
                                 /\ error.locs = {<<blk, f, Index(i)>> : i \in S}
                /\ response.body = Put(Base(t), <<blk, NewKey>>, PyList(<<PyFloat(5), None>>)) =>
                     /\ Returned
                     /\ Val(Field(result, blk)).extra[NewKey] = PyList(<<PyFloat(5), None>>)

\* One entry of precipitation_sum of a historical body is null: the decode fails.
C28_Witness ==
    /\ Answered("get_historical_weather")
    /\ response.body =
          Put(HistoricalBody, <<"daily", "precipitation_sum">>, Nulled(Readings, {2}))
    /\ Failed("ValidationError")
    /\ error.locs = {<<"daily", "precipitation_sum", "1">>}

\* What C29 says of one step of an invocation of a network tool.
C29_Step ==
    tool' \in NetworkTools =>
        /\ (request = NoRequest /\ request' # NoRequest) =>
              /\ params = BuildParams(tool, args)
              /\ request'.params = params
              /\ client = "none" /\ client' = "open"
        /\ ((data = Unset /\ data' # Unset) \/ error'.type = "JSONDecodeError") =>
              response.status \in 200..299
        /\ (pc' = "done" /\ response' # NoResponse /\ response'.status \notin 200..299) =>
              (error'.type = "HTTPStatusError" /\ result' = Unset)
        /\ \/ result = Unset /\ result' # Unset
           \/ error = NoError /\ error'.type \in {"ValidationError", "TypeError"}
           => (client = "closed" /\ data # Unset)
        /\ client' = "open" => pc' \notin {"idle", "built", "closed", "done"}
        /\ pc' = "done" => client' = "closed"

\* C29: in every network tool the request is sent with the parameters
\* assembled from the arguments, by a client opened for it; the body is
\* parsed only of a response whose status is a success, so that a
\* non-success response with an unparsable body ends in the status error;
\* the body is decoded only once the client is closed; and the invocation
\* ends, however it ends, with the client closed.
C29_OrderAndClosure == [][C29_Step]_vars

\* A response of status 500 whose body is no JSON: the status error, and
\* the client is closed.
C29_Witness ==
    /\ pc = "done"
    /\ tool = "get_air_quality"
    /\ response = [status |-> 500, body |-> Unparsable]
    /\ Failed("HTTPStatusError")
    /\ client = "closed"

\* C30: a geocoding body without the results key decodes into a
\* GeocodingResponse whose results is None, not an empty list, and
\* geocode_location returns it having issued its one request.
C30_NoMatch ==
    (Answered("geocode_location") /\ "results" \notin DOMAIN Val(response.body)) =>
        /\ Returned
        /\ error = NoError
        /\ Field(result, "results") = None
        /\ Field(result, "results") # PyList(<<>>)
        /\ nreq = 1

\* The upstream's answer for no match: generationtime_ms only.
C30_Witness ==
    /\ Answered("geocode_location")
    /\ response.body = Del(GeocodingBody, <<"results">>)
    /\ Returned
    /\ Field(result, "results") = None
    /\ nreq = 1

(***************************************************************************)
(* The retry helper.                                                       *)
(***************************************************************************)
\* The type names that contain connect, timeout, network, tls or ssl.
NetworkNames ==
    {TypeName.ConnectError, TypeName.ReadTimeout, TypeName.NetworkError, TypeName.SSLError}
NetworkFailure(o) == o.kind = "raise" /\ o.name \in NetworkNames

\* C26: the retry helper calls the wrapped function at most max_retries
\* times; every attempt but the last made failed with an error whose type
\* name contains connect, timeout, network, tls or ssl; a successful
\* attempt is the last and its result is returned; an error that is not
\* network-related, or that of attempt number max_retries, is the last
\* and is the error raised; and the k-th sleep (from 0) lasts
\* initial_delay * 2^k, one sleep between two attempts.
C26_BoundedRetry ==
    rpc # "idle" =>
        /\ Len(outcomes) <= max_retries
        /\ \A i \in 1..(Len(outcomes) - 1) : NetworkFailure(outcomes[i])
        /\ rpc \in {"loop", "sleeping"} =>
              \A i \in 1..Len(outcomes) : NetworkFailure(outcomes[i])
        /\ outcomes # <<>> =>
              LET last == outcomes[Len(outcomes)]
              IN  /\ last.kind = "return" => (rpc = "returned" /\ retried = last)
                  /\ (~NetworkFailure(last) /\ last.kind = "raise") =>
                        (rpc = "raised" /\ retried = last)
                  /\ (last.kind = "raise" /\ Len(outcomes) = max_retries) =>
                        (rpc = "raised" /\ retried = last)
                  /\ rpc = "returned" => last.kind = "return"
                  /\ rpc = "raised" => last.kind = "raise"
                  /\ rpc \in {"returned", "raised"} => Len(sleeps) = Len(outcomes) - 1
        /\ rpc = "sleeping" => Len(sleeps) = Len(outcomes)
        /\ rpc = "loop" => (Len(sleeps) = attempt /\ Len(outcomes) = attempt)
        /\ \A k \in 1..Len(sleeps) : sleeps[k] = initial_delay * (2 ^ (k - 1))

\* Two network failures, two sleeps of 2 and 4, then the third attempt
\* fails too and its error is raised.
C26_Witness ==
    /\ rpc = "raised"
    /\ max_retries = 3
    /\ initial_delay = 2
    /\ Len(outcomes) = 3
    /\ outcomes[1].name = TypeName.ConnectError
    /\ outcomes[2].name = TypeName.SSLError
    /\ retried = Raises(TypeName.ReadTimeout, "Exception", 2)
    /\ sleeps = <<2, 4>>

=============================================================================
